---------------------------- MODULE Spec2Model ----------------------------
(***************************************************************************)
(* Tokyo Escape: the Speech Sequencer (src/src/tts.js), the Hybrid         *)
(* Puzzle/Judgment Engine (src/unnamed/part_000, gemini.js) and the Stage  *)
(* Orchestrator (src/src/main.js).                                         *)
(*                                                                         *)
(* JavaScript runs one task at a time: an exported function called from    *)
(* an event handler, or the continuation of an await, runs to its next     *)
(* await together with every microtask it makes runnable.  Each action     *)
(* below is one such task.                                                 *)
(***************************************************************************)
EXTENDS Integers, Sequences, FiniteSets, TLC

(***************************************************************************)
(* Bounds of the model.                                                    *)
(***************************************************************************)
\* number of speech requests (speak / speakAndWait submissions) in a run
MaxReq == 3

Req == 1..MaxReq

(***************************************************************************)
(* Program constants.                                                      *)
(***************************************************************************)
\* tts.js:25/49  a cleaned text shorter than this is not spoken
MinCleanLen == 3

\* lengths of the cleaned text a caller may submit: empty, too short, speakable
CleanLens == {0, MinCleanLen - 1, MinCleanLen}

(***************************************************************************)
(* State of tts.js.  A speech request r is one submission; pc[r] is the    *)
(* position of its synthesizeAndPlay call.                                 *)
(***************************************************************************)
VARIABLES
    ttsEnabled,           \* tts.js:6
    currentAudio,         \* tts.js:7   0 (null) or the request whose Audio it is
    audioQueue,           \* tts.js:8   sequence of queued requests
    isPlaying,            \* tts.js:9
    currentSpeakResolve,  \* tts.js:10  0 (null) or the request whose resolve it is
    synthesisAborted,     \* tts.js:11
    kind,                 \* r -> "none" | "queued" | "priority"
    pc,                   \* r -> where the request is: "new" (not submitted), "queued",
                          \*   "dropped" (cleared from the queue), "fetch", "json",
                          \*   "playing" (its Audio was started and has not ended), or how
                          \*   its synthesizeAndPlay returned: "silent" (no audio, no
                          \*   failure), "failed", "ended", "errored"
    resolved,             \* speakAndWait requests whose completion signal is resolved
    sounding,             \* requests whose Audio element is playing (not paused, not ended)
    nextReq,              \* the next request to be submitted
    \* history of the run, read by the properties only
    cancelled,            \* requests still in synthesis that were in synthesis when a
                          \*   caller called stopSpeaking or skipAndProceed
    preStop               \* requests still in synthesis that were submitted before a
                          \*   stopSpeaking(); speak(t) pair

ttsVars == <<ttsEnabled, currentAudio, audioQueue, isPlaying, currentSpeakResolve,
             synthesisAborted, kind, pc, resolved, sounding, nextReq>>
ttsHist == <<cancelled, preStop>>

(***************************************************************************)
(* State of the Engine, class GeoAIGameMaster of gemini.js                 *)
(* (src/unnamed/part_000).                                                 *)
(***************************************************************************)
VARIABLES
    cloudModel,           \* part_000:54-65  TRUE iff an API key was configured
    chatSession,          \* part_000:67     TRUE iff the cloud session exists
    localAiSession,       \* part_000:68     TRUE iff the edge session exists
    consecutiveWrong,     \* part_000:71
    consecutiveCorrect,   \* part_000:72
    calls,                \* the outstanding calls: slot -> call record
    ret,                  \* what the call that returned last returned
    diffMod               \* part_000:160  the modifier computed last, "none" before

engVars == <<cloudModel, chatSession, localAiSession, consecutiveWrong,
             consecutiveCorrect, calls, ret, diffMod>>

(***************************************************************************)
(* State of the Orchestrator, main.js, and of map.js.  A flow is one run   *)
(* of an event handler of main.js through the async functions it calls.    *)
(***************************************************************************)
VARIABLES
    state,                \* main.js:10-22  the state object
    screen,               \* main.js:54-57  the screen that is shown
    viewer,               \* map.js:4       TRUE iff the viewer exists
    flows,                \* the runs of the handlers: flow -> flow record
    finalRank,            \* main.js:432    the rank shown, "" before
    finalTime,            \* main.js:430    the elapsed seconds shown, 0 before
    finalHints,           \* main.js:431    the hint count shown, 0 before
    endings               \* history: the number of endGame calls of the run

orchVars == <<state, screen, viewer, flows, finalRank, finalTime, finalHints, endings>>

(***************************************************************************)
(* The module state of tts.js as a record, so that the functions of the    *)
(* file compose as they do in the source.                                  *)
(***************************************************************************)
TtsState ==
    [ttsEnabled |-> ttsEnabled, currentAudio |-> currentAudio,
     audioQueue |-> audioQueue, isPlaying |-> isPlaying,
     currentSpeakResolve |-> currentSpeakResolve,
     synthesisAborted |-> synthesisAborted, kind |-> kind, pc |-> pc,
     resolved |-> resolved, sounding |-> sounding]

SetTts(s) ==
    /\ ttsEnabled' = s.ttsEnabled
    /\ currentAudio' = s.currentAudio
    /\ audioQueue' = s.audioQueue
    /\ isPlaying' = s.isPlaying
    /\ currentSpeakResolve' = s.currentSpeakResolve
    /\ synthesisAborted' = s.synthesisAborted
    /\ kind' = s.kind
    /\ pc' = s.pc
    /\ resolved' = s.resolved
    /\ sounding' = s.sounding
    /\ UNCHANGED <<engVars, orchVars>>

\* tts.js:180-190  stopSpeaking: pause() halts the element currentAudio refers to
stopSpeaking(s) ==
    [s EXCEPT !.synthesisAborted = TRUE,
              !.audioQueue = <<>>,
              !.isPlaying = FALSE,
              !.sounding = IF s.currentAudio # 0 THEN @ \ {s.currentAudio} ELSE @,
              !.currentAudio = 0,
              !.pc = [r \in Req |-> IF s.pc[r] = "queued" THEN "dropped" ELSE s.pc[r]]]

\* tts.js:102-107  synthesizeAndPlay up to its first await (the fetch)
synthesizeAndPlay(s, r) ==
    [s EXCEPT !.synthesisAborted = FALSE, !.pc[r] = "fetch"]

\* tts.js:88-96  the while loop of processQueue, from its test to the next await
queueLoop(s) ==
    IF Len(s.audioQueue) > 0
    THEN synthesizeAndPlay([s EXCEPT !.audioQueue = Tail(@)], Head(s.audioQueue))
    ELSE [s EXCEPT !.isPlaying = FALSE]

\* tts.js:84-97  processQueue
processQueue(s) ==
    IF s.isPlaying \/ Len(s.audioQueue) = 0
    THEN s
    ELSE queueLoop([s EXCEPT !.isPlaying = TRUE])

\* tts.js:59-65  the then/catch handler of speakAndWait
waitSettled(s, r) ==
    [s EXCEPT !.currentSpeakResolve = 0, !.resolved = @ \cup {r}]

\* The promise of synthesizeAndPlay(r) settles (how: the way the call ended):
\* its awaiter continues, the handler of speakAndWait (tts.js:59-65) or the
\* loop of processQueue (tts.js:91-96).
settle(s, r, how) ==
    LET s1 == [s EXCEPT !.pc[r] = how]
    IN IF s.kind[r] = "priority" THEN waitSettled(s1, r) ELSE queueLoop(s1)

\* a refused play() whose catch handler is missing: the promise never settles
playRefusedUnhandled(s, r) == [s EXCEPT !.pc[r] = "failed"]

\* tts.js:166-169  play() is refused: the catch handler resolves
playRefused(s, r) == settle(s, r, "failed")

\* tts.js:152-157  onended of request r's Audio element
audioEnded(s, r) ==
    settle([s EXCEPT !.sounding = @ \ {r}, !.currentAudio = 0], r, "ended")

\* tts.js:159-164  onerror of request r's Audio element
audioErrored(s, r) ==
    settle([s EXCEPT !.sounding = @ \ {r}, !.currentAudio = 0], r, "errored")

\* tts.js:146-170  the Audio element is created and play() is called
startAudio(s, r, plays) ==
    LET s1 == [s EXCEPT !.currentAudio = r]
    IN IF plays
       THEN [s1 EXCEPT !.sounding = @ \cup {r}, !.pc[r] = "playing"]
       ELSE playRefused(s1, r)

\* tts.js:72-79  skipAndProceed
skipAndProceed(s) ==
    LET s1 == stopSpeaking(s)
    IN IF s1.currentSpeakResolve # 0
       THEN [s1 EXCEPT !.resolved = @ \cup {s1.currentSpeakResolve},
                       !.currentSpeakResolve = 0]
       ELSE s1

\* tts.js:195-199  toggleTTS
toggleTTS(s) ==
    LET s1 == [s EXCEPT !.ttsEnabled = ~@]
    IN IF ~s1.ttsEnabled THEN stopSpeaking(s1) ELSE s1

\* tts.js:107-132  the fetch of request r returns: it threw, or returned with a
\* non-OK status, or returned OK
fetchReturned(s, r, outcome) ==
    IF outcome = "throw" THEN settle(s, r, "failed")
    ELSE IF s.synthesisAborted
         THEN settle(s, r, IF outcome = "status" THEN "failed" ELSE "silent")
    ELSE IF outcome = "status" THEN settle(s, r, "failed")
    ELSE [s EXCEPT !.pc[r] = "json"]

\* tts.js:134-170  response.json() of request r returns: it threw, or the body
\* has no audioContent, or it has; plays: whether play() is accepted
jsonReturned(s, r, outcome, plays) ==
    IF outcome = "throw" THEN settle(s, r, "failed")
    ELSE IF outcome = "empty" THEN settle(s, r, "failed")
    ELSE IF s.synthesisAborted THEN settle(s, r, "silent")
    ELSE startAudio(s, r, plays)

\* tts.js:16-30  speak(text), len the length of the cleaned text
speak(s, r, len) ==
    IF ~s.ttsEnabled \/ len < MinCleanLen
    THEN s
    ELSE LET s1 == [s EXCEPT !.kind[r] = "queued", !.pc[r] = "queued",
                             !.synthesisAborted = FALSE,
                             !.audioQueue = Append(@, r)]
         IN IF ~s1.isPlaying THEN processQueue(s1) ELSE s1

\* tts.js:36-67  speakAndWait(text), len the length of the cleaned text
speakAndWait(s, r, len) ==
    IF ~s.ttsEnabled \/ len < MinCleanLen
    THEN [s EXCEPT !.kind[r] = "priority", !.pc[r] = "silent",
                   !.resolved = @ \cup {r}]
    ELSE LET s1 == [s EXCEPT !.kind[r] = "priority",
                             !.currentSpeakResolve = r]
         IN synthesizeAndPlay(stopSpeaking(s1), r)

(***************************************************************************)
(* What the properties read off the state.                                 *)
(***************************************************************************)
\* requests in synthesis: the network request is outstanding, no audio exists
InSynthesis(r) == pc[r] \in {"fetch", "json"}

\* requests whose audio has started at some time
Started == {r \in Req : pc[r] \in {"playing", "ended", "errored"}}

\* speakAndWait requests whose synthesis or playback failed
Failed == {r \in Req : kind[r] = "priority" /\ pc[r] \in {"failed", "errored"}}

\* the newest speakAndWait request whose completion signal is unresolved (0: none)
NewestPending ==
    LET P == {r \in Req : kind[r] = "priority" /\ r \notin resolved}
    IN IF P = {} THEN 0 ELSE CHOOSE r \in P : \A q \in P : q <= r

\* the history variables keep a request while it is in synthesis
Relevant(S) == {r \in S : pc'[r] \in {"fetch", "json"}}

(***************************************************************************)
(* Initial state: tts.js:6-11, nothing submitted.                          *)
(***************************************************************************)
TTSInit ==
    /\ ttsEnabled = TRUE
    /\ currentAudio = 0
    /\ audioQueue = <<>>
    /\ isPlaying = FALSE
    /\ currentSpeakResolve = 0
    /\ synthesisAborted = FALSE
    /\ kind = [r \in Req |-> "none"]
    /\ pc = [r \in Req |-> "new"]
    /\ resolved = {}
    /\ sounding = {}
    /\ nextReq = 1
    /\ cancelled = {}
    /\ preStop = {}

(***************************************************************************)
(* The tasks of the Speech Sequencer.                                      *)
(***************************************************************************)
\* a caller submits a queued text that is spoken (speak returns early otherwise)
Speak ==
    /\ nextReq <= MaxReq
    /\ \E len \in CleanLens :
         /\ ttsEnabled /\ len >= MinCleanLen
         /\ SetTts(speak(TtsState, nextReq, len))
    /\ nextReq' = nextReq + 1
    /\ preStop' = Relevant(preStop)
    /\ cancelled' = Relevant(cancelled)

\* a caller calls stopSpeaking() and then speak(text) in the same task
StopThenSpeak ==
    /\ nextReq <= MaxReq
    /\ \E len \in CleanLens :
         /\ ttsEnabled /\ len >= MinCleanLen
         /\ SetTts(speak(stopSpeaking(TtsState), nextReq, len))
    /\ nextReq' = nextReq + 1
    /\ preStop' = Relevant(preStop \cup {q \in Req : q < nextReq})
    /\ cancelled' = Relevant(cancelled \cup {r \in Req : InSynthesis(r)})

\* a caller submits a priority text and holds its completion signal
SpeakAndWait ==
    /\ nextReq <= MaxReq
    /\ \E len \in CleanLens : SetTts(speakAndWait(TtsState, nextReq, len))
    /\ nextReq' = nextReq + 1
    /\ preStop' = Relevant(preStop)
    /\ cancelled' = Relevant(cancelled)

\* a caller calls stopSpeaking()
StopSpeaking ==
    /\ SetTts(stopSpeaking(TtsState))
    /\ cancelled' = Relevant(cancelled \cup {r \in Req : InSynthesis(r)})
    /\ preStop' = Relevant(preStop)
    /\ UNCHANGED nextReq

\* a caller calls skipAndProceed()
SkipAndProceed ==
    /\ SetTts(skipAndProceed(TtsState))
    /\ cancelled' = Relevant(cancelled \cup {r \in Req : InSynthesis(r)})
    /\ preStop' = Relevant(preStop)
    /\ UNCHANGED nextReq

\* the voice toggle
ToggleTTS ==
    /\ SetTts(toggleTTS(TtsState))
    /\ cancelled' = Relevant(cancelled)
    /\ preStop' = Relevant(preStop)
    /\ UNCHANGED nextReq

\* the synthesis request of r returns
FetchReturns ==
    \E r \in Req, outcome \in {"ok", "status", "throw"} :
        /\ pc[r] = "fetch"
        /\ SetTts(fetchReturned(TtsState, r, outcome))
        /\ cancelled' = Relevant(cancelled)
        /\ preStop' = Relevant(preStop)
            /\ UNCHANGED nextReq

\* the body of the synthesis response of r is read; the audio may start
JsonReturns ==
    \E r \in Req, outcome \in {"audio", "empty", "throw"}, plays \in BOOLEAN :
        /\ pc[r] = "json"
        /\ SetTts(jsonReturned(TtsState, r, outcome, plays))
        /\ cancelled' = Relevant(cancelled)
        /\ preStop' = Relevant(preStop)
            /\ UNCHANGED nextReq

\* the audio of r plays to its end
AudioEnded ==
    \E r \in sounding :
        /\ SetTts(audioEnded(TtsState, r))
        /\ cancelled' = Relevant(cancelled)
        /\ preStop' = Relevant(preStop)
            /\ UNCHANGED nextReq

\* the Audio element of r reports an error while playing
AudioError ==
    \E r \in sounding :
        /\ SetTts(audioErrored(TtsState, r))
        /\ cancelled' = Relevant(cancelled)
        /\ preStop' = Relevant(preStop)
            /\ UNCHANGED nextReq

(***************************************************************************)
(* The Engine, class GeoAIGameMaster of gemini.js (src/unnamed/part_000).  *)
(*                                                                         *)
(* A text is what the properties need of a string: which string it is      *)
(* (src: a reply of the cloud or edge model, or one of the fixed strings   *)
(* of the file, id: the stage of a canned puzzle), its length in UTF-16    *)
(* units and whether it contains the marker [CORRECT].                     *)
(***************************************************************************)
\* number of Engine calls that callers other than main.js may have outstanding
\* at the same time
MaxCalls == 1

\* the difficulty counters are followed up to this value
MaxCount == 3

\* part_000:311-315  the stages that have a canned puzzle are 1..NumCanned
NumCanned == 5

\* part_000:170  a cloud puzzle shorter than this is replaced by the canned one
MinCloudPuzzleLen == 10

\* part_000:182  an edge puzzle is used when it is longer than this
EdgePuzzleOver == 10

\* part_000:221  a cloud verdict is used when it is longer than this
VerdictOver == 5

\* part_000:234  '[CORRECT]'.length
MarkerLen == 9

\* part_000:217  attempts of the cloud loop of evaluateAnswer
MaxAttempts == 2

\* number of handler runs of main.js followed in a run of the program
MaxFlows == 4

\* number of handler runs of main.js that may be under way at the same time
MaxBusy == 2

\* answers and hint requests are followed among the first MaxTalk handler runs
MaxTalk == 3

Flow == 1..MaxFlows

\* a call of the Engine is awaited by the flow that made it
Slot == Flow

\* the slots of the calls made to the Engine on its own: FreeSlot takes the
\* first idle slot while fewer than MaxCalls calls are outstanding
EngineSlot == 1..MaxCalls

\* the stage ids passed to generatePuzzle: the first and the last stage that
\* have a canned puzzle, and an id on either side of them
StageIds == {0, 1, NumCanned, NumCanned + 1}

Text(src, id, len, correct) == [src |-> src, id |-> id, len |-> len, correct |-> correct]

NoText == Text("none", 0, 0, FALSE)

\* lengths of the replies of the AI models: around every threshold of the file
AiLens == {0, VerdictOver, VerdictOver + 1, MinCloudPuzzleLen, EdgePuzzleOver + 1}

\* the texts an AI model (src: "cloud" or "edge") may reply; a text that
\* contains the marker is at least as long as the marker
AiTexts(src) ==
    {Text(src, 0, len, c) : len \in AiLens, c \in BOOLEAN} \
    {Text(src, 0, len, TRUE) : len \in {l \in AiLens : l < MarkerLen}}

\* part_000:195, 230, 247, 262, 288, 305, 317  the fixed strings and their lengths
FixedLen ==
    [connLost |-> 32, unstable |-> 37, hintOffline |-> 17, hintFailed |-> 24,
     narrationTemplate |-> 38, endingLine |-> 32, genericPuzzle |-> 24]

Fixed(name) == Text(name, 0, FixedLen[name], FALSE)

\* part_000:311-315  the lengths of the canned puzzles of stages 1..5
CannedLen == <<84, 66, 83, 64, 60>>

\* the sessions' replies: sendMessage of the cloud session throws or returns a
\* result whose response has no candidates, no content parts, or text parts;
\* prompt of the edge session throws or returns nothing or a string
CloudReplies ==
    {[kind |-> k, text |-> NoText] : k \in {"throw", "nocandidates", "noparts"}}
    \cup {[kind |-> "parts", text |-> x] : x \in AiTexts("cloud")}

EdgeReplies ==
    {[kind |-> k, text |-> NoText] : k \in {"throw", "undefined"}}
    \cup {[kind |-> "string", text |-> x] : x \in AiTexts("edge")}

\* A call: op the method, pc the await it is suspended at, arg its argument (the
\* stage id of generatePuzzle, the level of requestHint, the hint count in the
\* prompt of generateNarration), attempt the index of the cloud loop of
\* evaluateAnswer; and what it has done: sent, the sendMessage requests made to
\* the cloud session, asked, the prompt requests made to the edge session,
\* threw, the attempts (by index) of the cloud loop that threw, waited, whether the
\* backoff timer has run.
Call(op, at, arg) ==
    [op |-> op, pc |-> at, arg |-> arg, attempt |-> 0, sent |-> 0, asked |-> 0,
     threw |-> {}, waited |-> FALSE]

Idle == Call("idle", "idle", 0)

\* the record of a return: the call, the text returned, and upd, the number of
\* _updateDifficultyStats calls the call made
Return(c, text, upd) ==
    [op |-> c.op, arg |-> c.arg, text |-> text, attempt |-> c.attempt,
     sent |-> c.sent, asked |-> c.asked, threw |-> c.threw,
     waited |-> c.waited, upd |-> upd]

EngState ==
    [chatSession |-> chatSession, localAiSession |-> localAiSession,
     consecutiveWrong |-> consecutiveWrong,
     consecutiveCorrect |-> consecutiveCorrect]

\* the result of a task of a call: the Engine state, the call, the last return
Going(e, c) == [eng |-> e, call |-> c, ret |-> ret]
Returning(e, c, text, upd) == [eng |-> e, call |-> Idle, ret |-> Return(c, text, upd)]

\* part_000:125-145  _extractResponseText
extractResponseText(reply) ==
    IF reply.kind = "parts" THEN reply.text ELSE Text("cloud", 0, 0, FALSE)

\* _getDifficultyModifier with each threshold one higher
getDifficultyModifierLate(e) ==
    IF e.consecutiveWrong > 3 THEN "muchEasier"
    ELSE IF e.consecutiveWrong > 2 THEN "easier"
    ELSE IF e.consecutiveCorrect > 3 THEN "harder"
    ELSE ""

\* part_000:147-152  _getDifficultyModifier
getDifficultyModifier(e) ==
    IF e.consecutiveWrong >= 3 THEN "muchEasier"
    ELSE IF e.consecutiveWrong >= 2 THEN "easier"
    ELSE IF e.consecutiveCorrect >= 3 THEN "harder"
    ELSE ""

\* _updateDifficultyStats without the reset of the other counter
updateDifficultyStatsNoReset(e, text) ==
    IF text.correct
    THEN [e EXCEPT !.consecutiveCorrect = @ + 1]
    ELSE [e EXCEPT !.consecutiveWrong = @ + 1]

\* part_000:233-241  _updateDifficultyStats
updateDifficultyStats(e, text) ==
    IF text.correct
    THEN [e EXCEPT !.consecutiveCorrect = @ + 1, !.consecutiveWrong = 0]
    ELSE [e EXCEPT !.consecutiveWrong = @ + 1, !.consecutiveCorrect = 0]

\* part_000:309-318  _getFallbackPuzzle
getFallbackPuzzle(id) ==
    IF id \in 1..NumCanned
    THEN Text("cannedPuzzle", id, CannedLen[id], FALSE)
    ELSE Fixed("genericPuzzle")

\* part_000:87-97  init up to its first await
initSync(e) ==
    [e EXCEPT !.consecutiveWrong = 0, !.consecutiveCorrect = 0,
              !.chatSession = IF cloudModel THEN TRUE ELSE @]

\* part_000:178-187  generatePuzzle: the catch branch up to its await
puzzleCatch(e, c) ==
    IF e.localAiSession
    THEN Going(e, [c EXCEPT !.pc = "edge", !.asked = @ + 1])
    ELSE Returning(e, c, getFallbackPuzzle(c.arg), 0)

\* part_000:160-168  generatePuzzle after its init: sendMessage on a missing
\* session throws a TypeError inside the try
puzzleSend(e, c) ==
    IF e.chatSession
    THEN Going(e, [c EXCEPT !.pc = "cloud", !.sent = @ + 1])
    ELSE puzzleCatch(e, c)

\* generatePuzzle without the check of the cloud text
puzzleCloudUnchecked(e, c, reply) ==
    IF reply.kind = "throw" THEN puzzleCatch(e, c)
    ELSE Returning(e, c, extractResponseText(reply), 0)

\* part_000:168-176  generatePuzzle: the cloud replies
puzzleCloud(e, c, reply) ==
    IF reply.kind = "throw" THEN puzzleCatch(e, c)
    ELSE LET text == extractResponseText(reply)
         IN IF text.len = 0 \/ text.len < MinCloudPuzzleLen
            THEN Returning(e, c, getFallbackPuzzle(c.arg), 0)
            ELSE Returning(e, c, text, 0)

\* part_000:181-187  generatePuzzle: the edge replies
puzzleEdge(e, c, reply) ==
    IF reply.kind = "string" /\ reply.text.len > 0 /\ reply.text.len > EdgePuzzleOver
    THEN Returning(e, c, reply.text, 0)
    ELSE Returning(e, c, getFallbackPuzzle(c.arg), 0)

\* part_000:272-286, 298-303  generateNarration / generateEndingStory after init
storySend(e, c, fallback) ==
    IF e.chatSession
    THEN Going(e, [c EXCEPT !.pc = "cloud", !.sent = @ + 1])
    ELSE Returning(e, c, fallback, 0)

\* part_000:284-289, 301-306  generateNarration / generateEndingStory: the cloud replies
storyCloud(e, c, reply, fallback) ==
    IF reply.kind = "throw"
    THEN Returning(e, c, fallback, 0)
    ELSE Returning(e, c, extractResponseText(reply), 0)

\* the fixed text of a failed generateNarration (288) / generateEndingStory (305)
StoryFallback(op) ==
    IF op = "generateNarration" THEN Fixed("narrationTemplate") ELSE Fixed("endingLine")

\* part_000:113, 158-160, 270-272, 296-298  init has returned: its caller continues
afterInit(e, c) ==
    IF c.op = "init" THEN Returning(e, c, NoText, 0)
    ELSE IF c.op = "generatePuzzle" THEN puzzleSend(e, c)
    ELSE storySend(e, c, StoryFallback(c.op))

\* part_000:86-113  init, called by the game or by a method that found no cloud
\* session; edge: window.ai.languageModel exists (and hybridMode is on)
init(e, c, edge) ==
    LET e1 == initSync(e)
    IN IF edge THEN Going(e1, [c EXCEPT !.pc = "capabilities"])
       ELSE afterInit(e1, c)

\* part_000:102-111  init: capabilities() returns
initCapabilities(e, c, outcome) ==
    IF outcome = "available"
    THEN Going(e, [c EXCEPT !.pc = "create"])
    ELSE afterInit(e, c)

\* part_000:104-111  init: create() returns
initCreate(e, c, outcome) ==
    IF outcome = "ok"
    THEN afterInit([e EXCEPT !.localAiSession = TRUE], c)
    ELSE afterInit(e, c)

\* part_000:157-160, 269-270, 295-296  a method that calls init when no cloud session exists
withInit(e, c, edge) ==
    IF ~e.chatSession THEN init(e, c, edge) ELSE afterInit(e, c)

\* the cloud loop of evaluateAnswer with one attempt too many
evalLoopOffByOne(e, c) ==
    IF c.attempt <= MaxAttempts
    THEN IF e.chatSession
         THEN Going(e, [c EXCEPT !.pc = "cloud", !.sent = @ + 1])
         ELSE IF c.attempt = 0
              THEN Going(e, [c EXCEPT !.pc = "backoff", !.threw = @ \cup {0}])
              ELSE Returning(e, [c EXCEPT !.threw = @ \cup {c.attempt},
                                          !.attempt = @ + 1],
                             Fixed("unstable"), 0)
    ELSE Returning(e, c, Fixed("unstable"), 0)

\* part_000:217-230  evaluateAnswer: the cloud loop from its test to the next
\* await; sendMessage on a missing session throws inside the try (225-227)
evalLoop(e, c) ==
    IF c.attempt < MaxAttempts
    THEN IF e.chatSession
         THEN Going(e, [c EXCEPT !.pc = "cloud", !.sent = @ + 1])
         ELSE IF c.attempt = 0
              THEN Going(e, [c EXCEPT !.pc = "backoff", !.threw = @ \cup {0}])
              ELSE Returning(e, [c EXCEPT !.threw = @ \cup {c.attempt},
                                          !.attempt = @ + 1],
                             Fixed("unstable"), 0)
    ELSE Returning(e, c, Fixed("unstable"), 0)
\* evaluateAnswer that asks the cloud although an edge session exists
evaluateAnswerCloudFirst(e, c) ==
    IF ~e.chatSession /\ ~e.localAiSession
    THEN Returning(e, c, Fixed("connLost"), 0)
    ELSE evalLoop(e, c)


\* part_000:194-203  evaluateAnswer up to its first await
evaluateAnswer(e, c) ==
    IF ~e.chatSession /\ ~e.localAiSession
    THEN Returning(e, c, Fixed("connLost"), 0)
    ELSE IF e.localAiSession
         THEN Going(e, [c EXCEPT !.pc = "edge", !.asked = @ + 1])
         ELSE evalLoop(e, c)

\* evaluateAnswer that counts a failed edge attempt as a wrong verdict before
\* the cloud loop
evalEdgeCountsFailure(e, c, reply) ==
    IF reply.kind = "string"
    THEN Returning(updateDifficultyStats(e, reply.text), c, reply.text, 1)
    ELSE evalLoop(updateDifficultyStats(e, NoText), c)

\* part_000:203-210  evaluateAnswer: the edge replies; includes() of a reply
\* that is no string throws, and the cloud loop follows
evalEdge(e, c, reply) ==
    IF reply.kind = "string"
    THEN Returning(updateDifficultyStats(e, reply.text), c, reply.text, 1)
    ELSE evalLoop(e, c)

\* part_000:219-229  evaluateAnswer: the cloud replies to attempt c.attempt
evalCloud(e, c, reply) ==
    IF reply.kind = "throw"
    THEN IF c.attempt = 0
         THEN Going(e, [c EXCEPT !.pc = "backoff", !.threw = @ \cup {0}])
         ELSE evalLoop(e, [c EXCEPT !.threw = @ \cup {c.attempt}, !.attempt = @ + 1])
    ELSE LET text == extractResponseText(reply)
         IN IF text.len > 0 /\ text.len > VerdictOver
            THEN Returning(updateDifficultyStats(e, text), c, text, 1)
            ELSE evalLoop(e, [c EXCEPT !.attempt = @ + 1])

\* part_000:227-229  evaluateAnswer: the backoff timer of attempt 0 has run
evalBackoff(e, c) ==
    evalLoop(e, [c EXCEPT !.attempt = @ + 1, !.waited = TRUE])

\* part_000:246-253  requestHint up to its first await
requestHint(e, c) ==
    IF ~e.chatSession
    THEN Returning(e, c, Fixed("hintOffline"), 0)
    ELSE Going(e, [c EXCEPT !.pc = "cloud", !.sent = @ + 1])

\* part_000:253-263  requestHint: the cloud replies
hintCloud(e, c, reply) ==
    IF reply.kind = "throw"
    THEN IF e.localAiSession
         THEN Going(e, [c EXCEPT !.pc = "edge", !.asked = @ + 1])
         ELSE Returning(e, c, Fixed("hintFailed"), 0)
    ELSE Returning(e, c, extractResponseText(reply), 0)

\* part_000:258-262  requestHint: the edge replies; its reply is returned as it is
hintEdge(e, c, reply) ==
    IF reply.kind = "throw"
    THEN Returning(e, c, Fixed("hintFailed"), 0)
    ELSE Returning(e, c, reply.text, 0)

(***************************************************************************)
(* Initial state of the Engine: the constructor, part_000:47-81; the       *)
(* singleton of part_000:325 has an API key or has none.                   *)
(***************************************************************************)
EngInit ==
    /\ cloudModel \in BOOLEAN
    /\ chatSession = FALSE
    /\ localAiSession = FALSE
    /\ consecutiveWrong = 0
    /\ consecutiveCorrect = 0
    /\ calls = [k \in Slot |-> Idle]
    /\ ret = Return(Call("none", "idle", 0), NoText, 0)
    /\ diffMod = "none"

\* the slot a new call takes: the first free one
FreeSlot(k) ==
    /\ calls[k] = Idle /\ \A j \in Slot : j < k => calls[j] # Idle
    /\ Cardinality({j \in Slot : calls[j] # Idle}) < MaxCalls

\* a task of the call in slot k ends in res; the counters are followed up to MaxCount
Apply(k, res) ==
    /\ res.eng.consecutiveWrong <= MaxCount
    /\ res.eng.consecutiveCorrect <= MaxCount
    /\ chatSession' = res.eng.chatSession
    /\ localAiSession' = res.eng.localAiSession
    /\ consecutiveWrong' = res.eng.consecutiveWrong
    /\ consecutiveCorrect' = res.eng.consecutiveCorrect
    /\ calls' = [calls EXCEPT ![k] = res.call]
    /\ ret' = res.ret
    /\ UNCHANGED <<cloudModel, diffMod, ttsVars, ttsHist, orchVars>>

NewCall(op, arg) == Call(op, "start", arg)

(***************************************************************************)
(* The tasks of the Engine: a call of a method, and the return of each     *)
(* request a call awaits.                                                  *)
(***************************************************************************)
\* initGameSession() (part_000:328)
CallInit ==
    \E k \in Slot, edge \in BOOLEAN :
        /\ FreeSlot(k)
        /\ Apply(k, init(EngState, NewCall("init", 0), edge))

\* generatePuzzle(stage) (part_000:329)
CallGeneratePuzzle ==
    \E k \in Slot, id \in StageIds, edge \in BOOLEAN :
        /\ FreeSlot(k)
        /\ Apply(k, withInit(EngState, NewCall("generatePuzzle", id), edge))

\* evaluateAnswer(answer) (part_000:330)
CallEvaluateAnswer ==
    \E k \in Slot :
        /\ FreeSlot(k)
        /\ Apply(k, evaluateAnswer(EngState, NewCall("evaluateAnswer", 0)))

\* requestHint(level) (part_000:331)
CallRequestHint ==
    \E k \in Slot :
        /\ FreeSlot(k)
        /\ Apply(k, requestHint(EngState, NewCall("requestHint", 0)))

\* generateNarration(from, to) (part_000:332)
CallGenerateNarration ==
    \E k \in Slot, edge \in BOOLEAN :
        /\ FreeSlot(k)
        /\ Apply(k, withInit(EngState, NewCall("generateNarration", 0), edge))

\* generateEndingStory(time, hints, count) (part_000:333)
CallGenerateEndingStory ==
    \E k \in Slot, edge \in BOOLEAN :
        /\ FreeSlot(k)
        /\ Apply(k, withInit(EngState, NewCall("generateEndingStory", 0), edge))

\* window.ai.languageModel.capabilities() returns to an init
CapabilitiesReturns ==
    \E k \in Slot, outcome \in {"throw", "no", "available"} :
        /\ calls[k].pc = "capabilities"
        /\ Apply(k, initCapabilities(EngState, calls[k], outcome))

\* window.ai.languageModel.create() returns to an init
CreateReturns ==
    \E k \in Slot, outcome \in {"throw", "ok"} :
        /\ calls[k].pc = "create"
        /\ Apply(k, initCreate(EngState, calls[k], outcome))

PuzzleCloudReturns ==
    \E k \in Slot, reply \in CloudReplies :
        /\ calls[k].op = "generatePuzzle" /\ calls[k].pc = "cloud"
        /\ Apply(k, puzzleCloud(EngState, calls[k], reply))

PuzzleEdgeReturns ==
    \E k \in Slot, reply \in EdgeReplies :
        /\ calls[k].op = "generatePuzzle" /\ calls[k].pc = "edge"
        /\ Apply(k, puzzleEdge(EngState, calls[k], reply))

\* the edge session replies to the evaluateAnswer call in slot k
EvalEdgeReturnsAt(k) ==
    \E reply \in EdgeReplies :
        /\ calls[k].op = "evaluateAnswer" /\ calls[k].pc = "edge"
        /\ Apply(k, evalEdge(EngState, calls[k], reply))

\* the cloud session replies to the evaluateAnswer call in slot k
EvalCloudReturnsAt(k) ==
    \E reply \in CloudReplies :
        /\ calls[k].op = "evaluateAnswer" /\ calls[k].pc = "cloud"
        /\ Apply(k, evalCloud(EngState, calls[k], reply))

\* the 500 ms timer of part_000:227 fires for the call in slot k
EvalBackoffElapsesAt(k) ==
    /\ calls[k].op = "evaluateAnswer" /\ calls[k].pc = "backoff"
    /\ Apply(k, evalBackoff(EngState, calls[k]))

EvalEdgeReturns == \E k \in Slot : EvalEdgeReturnsAt(k)

EvalCloudReturns == \E k \in Slot : EvalCloudReturnsAt(k)

EvalBackoffElapses == \E k \in Slot : EvalBackoffElapsesAt(k)

HintCloudReturns ==
    \E k \in Slot, reply \in CloudReplies :
        /\ calls[k].op = "requestHint" /\ calls[k].pc = "cloud"
        /\ Apply(k, hintCloud(EngState, calls[k], reply))

HintEdgeReturns ==
    \E k \in Slot, reply \in EdgeReplies :
        /\ calls[k].op = "requestHint" /\ calls[k].pc = "edge"
        /\ Apply(k, hintEdge(EngState, calls[k], reply))

StoryCloudReturns ==
    \E k \in Slot, reply \in CloudReplies :
        /\ calls[k].op \in {"generateNarration", "generateEndingStory"}
        /\ calls[k].pc = "cloud"
        /\ Apply(k, storyCloud(EngState, calls[k], reply, StoryFallback(calls[k].op)))

\* the tasks in which the evaluateAnswer call in slot k advances: each request
\* it awaits returns or fails, its timer fires
EvalStep(k) == EvalEdgeReturnsAt(k) \/ EvalCloudReturnsAt(k) \/ EvalBackoffElapsesAt(k)

EngineNext ==
    \/ CallInit
    \/ CallGeneratePuzzle
    \/ CallEvaluateAnswer
    \/ CallRequestHint
    \/ CallGenerateNarration
    \/ CallGenerateEndingStory
    \/ CapabilitiesReturns
    \/ CreateReturns
    \/ PuzzleCloudReturns
    \/ PuzzleEdgeReturns
    \/ EvalEdgeReturns
    \/ EvalCloudReturns
    \/ EvalBackoffElapses
    \/ HintCloudReturns
    \/ HintEdgeReturns
    \/ StoryCloudReturns

(***************************************************************************)
(* The Orchestrator, main.js.                                              *)
(***************************************************************************)
\* the longest streak of verdicts the difficulty modifier is computed for
MaxStreak == 30

\* the number of hints followed in a run
MaxHints == 6

\* elapsed seconds: values on both sides of every time band of calculateRank
Times == {0, 250, 299, 300, 500, 599, 600, 700, 899, 900, 1000, 1199, 1200, 1300}

Hints == 0..MaxHints

\* main.js:10-22 and 309-314  the state object at load and after startGame's reset
State0 ==
    [currentStage |-> 0, hintLevel |-> 0, totalHintsUsed |-> 0,
     elapsedSeconds |-> 0, isProcessing |-> FALSE, gameStarted |-> FALSE,
     timerInterval |-> FALSE]

\* a flow that is not running
NoFlow ==
    [pc |-> "idle", stage |-> 0, req |-> 0, map |-> "none", ai |-> "none",
     last |-> "none", rank |-> "none", sky |-> "none"]

\* calculateRank with the time band of rank A closed at its upper end
calculateRankClosed(time, hints) ==
    IF hints = 0 /\ time < 300 THEN "S"
    ELSE IF hints <= 2 /\ time <= 600 THEN "A"
    ELSE IF hints <= 5 /\ time < 900 THEN "B"
    ELSE IF time < 1200 THEN "C"
    ELSE "D"

\* main.js:451-459  calculateRank, of state.elapsedSeconds and state.totalHintsUsed
calculateRank(time, hints) ==
    IF hints = 0 /\ time < 300 THEN "S"
    ELSE IF hints <= 2 /\ time < 600 THEN "A"
    ELSE IF hints <= 5 /\ time < 900 THEN "B"
    ELSE IF time < 1200 THEN "C"
    ELSE "D"

\* main.js:10-22, 583  the page has loaded: the title screen is shown
OrchInit ==
    /\ state = State0
    /\ screen = "title"
    /\ viewer = FALSE
    /\ flows = [f \in Flow |-> NoFlow]
    /\ finalRank = ""
    /\ finalTime = 0
    /\ finalHints = 0
    /\ endings = 0

\* the Engine of a running session after a streak of wrong or of correct
\* verdicts (_updateDifficultyStats keeps one of the counters at 0)
DiffInit ==
    /\ TTSInit
    /\ cloudModel = TRUE
    /\ chatSession = TRUE
    /\ localAiSession = FALSE
    /\ \E n \in 0..MaxStreak :
           \/ consecutiveWrong = n /\ consecutiveCorrect = 0
           \/ consecutiveWrong = 0 /\ consecutiveCorrect = n
    /\ calls = [k \in Slot |-> Idle]
    /\ ret = Return(Call("none", "idle", 0), NoText, 0)
    /\ diffMod = "none"
    /\ OrchInit

\* part_000:160  generatePuzzle computes the difficulty modifier of its prompt
GetDifficultyModifier ==
    /\ diffMod' = getDifficultyModifier(EngState)
    /\ UNCHANGED <<cloudModel, chatSession, localAiSession, consecutiveWrong,
                   consecutiveCorrect, calls, ret, ttsVars, ttsHist, orchVars>>

\* the game at its end, after any elapsed time and any number of hints
RankInit ==
    /\ TTSInit /\ EngInit /\ cloudModel
    /\ \E t \in Times, h \in Hints :
           state = [State0 EXCEPT !.elapsedSeconds = t, !.totalHintsUsed = h,
                                  !.gameStarted = TRUE]
    /\ screen = "game"
    /\ viewer = TRUE
    /\ flows = [f \in Flow |-> NoFlow]
    /\ finalRank = ""
    /\ finalTime = 0
    /\ finalHints = 0
    /\ endings = 0

\* main.js:427, 432  the rank is computed and shown
CalculateRank ==
    /\ finalRank' = calculateRank(state.elapsedSeconds, state.totalHintsUsed)
    /\ finalTime' = state.elapsedSeconds
    /\ finalHints' = state.totalHintsUsed
    /\ UNCHANGED <<ttsVars, ttsHist, engVars, state, screen, viewer, flows, endings>>


\* the number of stages, STAGES.length (stages.js), as followed here
NumStages == 2

\* the number of ending sequences followed in a session
MaxEndings == 2

\* the number of hint requests followed in a session
MaxClicks == 5

\* main.js:528  the highest hint level
HintCap == 3

\* the hint levels of a stage
HintLevels == 0..HintCap

\* a game in its first stage with every handler run over, time seconds after
\* its start, after l hints were asked in the stage; the Engine has a key,
\* with or without its cloud session
InStage(time) ==
    /\ TTSInit
    /\ cloudModel = TRUE
    /\ chatSession \in BOOLEAN
    /\ localAiSession = FALSE
    /\ consecutiveWrong = 0
    /\ consecutiveCorrect = 0
    /\ calls = [k \in Slot |-> Idle]
    /\ ret = Return(Call("none", "idle", 0), NoText, 0)
    /\ diffMod = "none"
    /\ \E l \in HintLevels :
           state = [State0 EXCEPT !.hintLevel = l, !.totalHintsUsed = l,
                                  !.elapsedSeconds = time,
                                  !.gameStarted = TRUE, !.timerInterval = TRUE]
    /\ screen = "game"
    /\ viewer = TRUE
    /\ flows = [f \in Flow |-> NoFlow]
    /\ finalRank = ""
    /\ finalTime = 0
    /\ finalHints = 0
    /\ endings = 0

\* a stage at the start of the clock
HintInit == InStage(0)

\* the time of the session that is ended and started again, in seconds
PlayedFor == 600

\* a stage of a session that has lasted some time
RestartInit == InStage(PlayedFor)

\* the seconds of a short game: inside the time band of the best rank
PlayedBrief == 250

\* a stage of a short game
SummaryInit == InStage(PlayedBrief)

(***************************************************************************)
(* The whole program state as a record, so that a task of main.js runs     *)
(* through the functions of tts.js and gemini.js it calls.  ret is the     *)
(* return the Engine made in the task, ok is FALSE when the task needs     *)
(* more speech requests than the model follows.                            *)
(***************************************************************************)
World ==
    [tts |-> TtsState, eng |-> EngState, calls |-> calls, ret |-> ret,
     state |-> state, screen |-> screen, viewer |-> viewer, flows |-> flows,
     finalRank |-> finalRank, finalTime |-> finalTime, finalHints |-> finalHints,
     endings |-> endings, ok |-> TRUE]

\* Speech requests of main.js are numbered with the numbers of requests that
\* are over: their synthesizeAndPlay has returned, or their Audio element was
\* paused and dropped by stopSpeaking, and nothing refers to them any more.
FreeReqs(w) ==
    {r \in Req :
        /\ \/ w.tts.pc[r] \in {"new", "dropped", "silent", "failed", "ended", "errored"}
           \/ w.tts.pc[r] = "playing" /\ r \notin w.tts.sounding
        /\ r # w.tts.currentAudio /\ r # w.tts.currentSpeakResolve
        /\ \A f \in Flow : w.flows[f].req # r}

NewReq(w) ==
    IF FreeReqs(w) = {} THEN 0
    ELSE CHOOSE r \in FreeReqs(w) : \A q \in FreeReqs(w) : r <= q

Fresh(s, r) == [s EXCEPT !.kind[r] = "none", !.pc[r] = "new", !.resolved = @ \ {r}]

\* the requests that are over are forgotten: their numbers are used again
collect(w) ==
    [w EXCEPT !.tts.kind = [r \in Req |-> IF r \in FreeReqs(w) THEN "none" ELSE @[r]],
              !.tts.pc = [r \in Req |-> IF r \in FreeReqs(w) THEN "new" ELSE @[r]],
              !.tts.resolved = @ \ FreeReqs(w)]

\* the state after a task of the game; a return of the Engine is taken by the
\* flow that awaits it within the task (w.ret), the history variable ret keeps
\* the returns of the standalone Engine tasks only
Settle(w) ==
    /\ ttsEnabled' = w.tts.ttsEnabled
    /\ currentAudio' = w.tts.currentAudio
    /\ audioQueue' = w.tts.audioQueue
    /\ isPlaying' = w.tts.isPlaying
    /\ currentSpeakResolve' = w.tts.currentSpeakResolve
    /\ synthesisAborted' = w.tts.synthesisAborted
    /\ kind' = w.tts.kind
    /\ pc' = w.tts.pc
    /\ resolved' = w.tts.resolved
    /\ sounding' = w.tts.sounding
    /\ chatSession' = w.eng.chatSession
    /\ localAiSession' = w.eng.localAiSession
    /\ consecutiveWrong' = w.eng.consecutiveWrong
    /\ consecutiveCorrect' = w.eng.consecutiveCorrect
    /\ calls' = w.calls
    /\ state' = w.state
    /\ screen' = w.screen
    /\ viewer' = w.viewer
    /\ flows' = w.flows
    /\ finalRank' = w.finalRank
    /\ finalTime' = w.finalTime
    /\ finalHints' = w.finalHints
    /\ endings' = w.endings
    /\ UNCHANGED <<cloudModel, ret, diffMod, nextReq, ttsHist>>

SetWorld(w) ==
    /\ w.ok
    /\ w.eng.consecutiveWrong <= MaxCount /\ w.eng.consecutiveCorrect <= MaxCount
    /\ w.endings <= MaxEndings /\ w.state.totalHintsUsed <= MaxClicks
    /\ Settle(collect(w))

\* the lengths of the cleaned texts followed in a game: too short to be spoken,
\* and spoken
GameLens == {MinCleanLen - 1, MinCleanLen}

\* tts.js:19-24, 42-47  the cleaning removes characters: the cleaned text of a text is
\* not longer than the text
cleanLen(text, len) == IF len <= text.len THEN len ELSE text.len

\* speak(text) called by main.js (253, 447)
speakText(w, len) ==
    IF ~w.tts.ttsEnabled \/ len < MinCleanLen THEN w
    ELSE IF NewReq(w) = 0 THEN [w EXCEPT !.ok = FALSE]
    ELSE [w EXCEPT !.tts = speak(Fresh(w.tts, NewReq(w)), NewReq(w), len)]

\* main.js:234-257  addMessage(text, type): only AI messages are spoken
addMessage(w, type, len) == IF type = "ai" THEN speakText(w, len) ELSE w

\* the places where a flow awaits the completion signal of a speech
SpeechPcs == {"L_narr", "L_pspeech", "A_nspeech", "Q_speech"}

\* await speakAndWait(text) in flow f: the flow waits at `at` unless the
\* promise is resolved at once (tts.js:38-52); req is the request whose signal
\* the flow awaited last, 0 when that signal was resolved at once
speakAndWaitAt(w, f, len, at) ==
    IF ~w.tts.ttsEnabled \/ len < MinCleanLen THEN [w EXCEPT !.flows[f].req = 0]
    ELSE IF NewReq(w) = 0 THEN [w EXCEPT !.ok = FALSE]
    ELSE [w EXCEPT !.tts = speakAndWait(Fresh(w.tts, NewReq(w)), NewReq(w), len),
                   !.flows[f].pc = at, !.flows[f].req = NewReq(w)]

\* flow f does not continue in this task
Waiting(w, f, at) == ~w.ok \/ w.flows[f].pc = at

\* await of an Engine method in flow f: res is what the method did up to its
\* first await; the flow waits at `at` unless the method has returned
callEngine(w, f, res, at) ==
    LET w1 == [w EXCEPT !.eng = res.eng, !.calls[f] = res.call, !.ret = res.ret]
    IN IF res.call = Idle THEN w1 ELSE [w1 EXCEPT !.flows[f].pc = at]

\* the handler run of flow f is over (it returned or threw)
finish(w, f) == [w EXCEPT !.flows[f] = [NoFlow EXCEPT !.pc = "done"]]

\* main.js:357-361  loadStage after the narration speech: camera, marker, timer
afterNarration(w, f) == [w EXCEPT !.flows[f].pc = "L_cam"]

\* main.js:366-380  loadStage after generatePuzzle: the puzzle is shown and spoken
afterPuzzle(w, f, len) ==
    LET w1 == speakAndWaitAt(w, f, len, "L_pspeech")
    IN IF Waiting(w1, f, "L_pspeech") THEN w1 ELSE finish(w1, f)

\* main.js:364-365  loadStage after the camera timer: generatePuzzle(stage);
\* the id of the stage at index i is i + 1
afterCamera(w, f, edge, len) ==
    LET c == NewCall("generatePuzzle", w.flows[f].stage + 1)
        w1 == callEngine(w, f, withInit(w.eng, c, edge), "L_puzzle")
    IN IF Waiting(w1, f, "L_puzzle") THEN w1
       ELSE afterPuzzle(w1, f, cleanLen(w1.ret.text, len))

\* loadStage that does not await the narration speech
loadStageNoWait(w, f, stage, len) ==
    LET w0 == [w EXCEPT !.state.hintLevel = 0, !.flows[f].stage = stage]
        w1 == speakAndWaitAt(w0, f, len, "L_narr")
    IN IF ~w1.ok THEN w1 ELSE afterNarration(w1, f)

\* main.js:347-354  loadStage(STAGES[stage]) up to the narration speech
loadStage(w, f, stage, len) ==
    LET w0 == [w EXCEPT !.state.hintLevel = 0, !.flows[f].stage = stage]
        w1 == speakAndWaitAt(w0, f, len, "L_narr")
    IN IF Waiting(w1, f, "L_narr") THEN w1 ELSE afterNarration(w1, f)

\* main.js:447-448  endGame after the sky has cleared
showEnding(w, f, len) ==
    finish([speakText(w, len) EXCEPT !.screen = "ending"], f)

\* endGame that reveals the ending without awaiting the sky
afterStoryNoSkyWait(w, f, len) ==
    LET w1 == [w EXCEPT !.finalTime = w.state.elapsedSeconds,
                        !.finalHints = w.state.totalHintsUsed,
                        !.finalRank = w.flows[f].rank]
    IN showEnding(w1, f, cleanLen(w1.ret.text, len))

\* main.js:430-445  endGame after generateEndingStory: the time and the hint
\* count of the state are shown with the rank computed at 427, and the promise
\* of the sky animation is awaited
afterStory(w, f, len) ==
    LET w1 == [w EXCEPT !.finalTime = w.state.elapsedSeconds,
                        !.finalHints = w.state.totalHintsUsed,
                        !.finalRank = w.flows[f].rank]
    IN IF w.flows[f].sky = "over" THEN showEnding(w1, f, cleanLen(w1.ret.text, len))
       ELSE [w1 EXCEPT !.flows[f].pc = "E_sky"]

\* map.js:239-240  setClearSkyWeather up to its first await: without a viewer
\* it returns at once
setClearSkyWeather(w) == IF w.viewer THEN "running" ELSE "over"

\* main.js:420-428  endGame after the transition: sky animation, the rank,
\* the ending story
afterEndTransition(w, f, edge, len) ==
    LET c == NewCall("generateEndingStory", 0)
        w0 == [w EXCEPT !.flows[f].sky = setClearSkyWeather(w),
                        !.flows[f].rank = calculateRank(w.state.elapsedSeconds,
                                                        w.state.totalHintsUsed)]
        w1 == callEngine(w0, f, withInit(w0.eng, c, edge), "E_story")
    IN IF Waiting(w1, f, "E_story") THEN w1 ELSE afterStory(w1, f, len)

\* map.js:243-291, main.js:445-448  the sky animation of flow f is over: an
\* endGame that awaits it continues
skyCleared(w, f, len) ==
    LET w1 == [w EXCEPT !.flows[f].sky = "over"]
    IN IF w.flows[f].pc = "E_sky" THEN showEnding(w1, f, len) ELSE w1

\* main.js:413-417  endGame up to the transition timer
endGame(w, f) ==
    [w EXCEPT !.state.timerInterval = FALSE,
              !.tts = stopSpeaking(w.tts),
              !.endings = @ + 1,
              !.flows[f].pc = "E_trans"]

\* advanceStage that starts the narration speech and does not await it
afterNarrNoWait(w, f, len) ==
    LET w1 == speakAndWaitAt(w, f, cleanLen(w.ret.text, len), "A_nspeech")
    IN IF ~w1.ok THEN w1 ELSE [w1 EXCEPT !.flows[f].pc = "A_trans2"]

\* main.js:404-409  advanceStage after generateNarration: shown, spoken
afterNarr(w, f, len) ==
    LET w1 == speakAndWaitAt(w, f, cleanLen(w.ret.text, len), "A_nspeech")
    IN IF Waiting(w1, f, "A_nspeech") THEN w1
       ELSE [w1 EXCEPT !.flows[f].pc = "A_trans2"]

\* main.js:399-402  the third argument of generateNarration: the player's
\* statistics, with the cumulative hint count
Stats(hints) == [given |-> TRUE, hintsUsed |-> hints]

\* part_000:269  the default of the parameter playerStats, {}
EmptyStats == [given |-> FALSE, hintsUsed |-> 0]

\* part_000:332  the exported generateNarration: (from, to) are passed on, a
\* third argument is not, and the method takes the default of playerStats
proxyStats(stats) == EmptyStats

\* part_000:279  the hint count of the narration prompt, playerStats.hintsUsed || 0
promptHints(playerStats) ==
    IF playerStats.given /\ playerStats.hintsUsed # 0 THEN playerStats.hintsUsed
    ELSE 0

\* main.js:398-402  advanceStage after the first transition: generateNarration
afterTrans1(w, f, edge, len) ==
    LET c == NewCall("generateNarration",
                     promptHints(proxyStats(Stats(w.state.totalHintsUsed))))
        w1 == callEngine(w, f, withInit(w.eng, c, edge), "A_narr")
    IN IF Waiting(w1, f, "A_narr") THEN w1 ELSE afterNarr(w1, f, len)

\* main.js:382-395  advanceStage up to its first timer
advanceStage(w, f) ==
    LET w1 == [w EXCEPT !.state.currentStage = @ + 1]
    IN IF w1.state.currentStage >= NumStages
       THEN endGame(w1, f)
       ELSE [w1 EXCEPT !.tts = stopSpeaking(w.tts),
                       !.flows[f].stage = w1.state.currentStage,
                       !.flows[f].pc = "A_trans1"]

\* main.js:513-516  onSendAnswer after the speech of a correct response
afterCorrectSpeech(w, f) ==
    advanceStage([w EXCEPT !.state.isProcessing = FALSE], f)

\* onSendAnswer that does not await the speech of a correct response
afterEvalNoWait(w, f, len) ==
    LET l == cleanLen(w.ret.text, len)
    IN IF w.ret.text.correct
       THEN LET w1 == speakAndWaitAt(w, f, l, "Q_speech")
            IN IF ~w1.ok THEN w1 ELSE afterCorrectSpeech(w1, f)
       ELSE finish([addMessage(w, "ai", l) EXCEPT !.state.isProcessing = FALSE], f)

\* onSendAnswer that advances the stage after a wrong response too
afterEvalAdvancesOnWrong(w, f, len) ==
    LET l == cleanLen(w.ret.text, len)
    IN IF w.ret.text.correct
       THEN LET w1 == speakAndWaitAt(w, f, l, "Q_speech")
            IN IF Waiting(w1, f, "Q_speech") THEN w1 ELSE afterCorrectSpeech(w1, f)
       ELSE afterCorrectSpeech(addMessage(w, "ai", l), f)

\* main.js:496-522  onSendAnswer after evaluateAnswer
afterEval(w, f, len) ==
    LET l == cleanLen(w.ret.text, len)
    IN IF w.ret.text.correct
       THEN LET w1 == speakAndWaitAt(w, f, l, "Q_speech")
            IN IF Waiting(w1, f, "Q_speech") THEN w1 ELSE afterCorrectSpeech(w1, f)
       ELSE finish([addMessage(w, "ai", l) EXCEPT !.state.isProcessing = FALSE], f)

\* main.js:536-539  onHintRequest after requestHint; addMessage of a hint that
\* is undefined throws and the handler ends there
afterHint(w, f, len) ==
    IF w.ret.text.src = "none"
    THEN finish(w, f)
    ELSE finish([addMessage(w, "ai", cleanLen(w.ret.text, len))
                     EXCEPT !.state.isProcessing = FALSE], f)

\* main.js:330-344  startGame after its second initMap: controls, timer, stage 0
afterMapTiles(w, f, len) ==
    loadStage([w EXCEPT !.state.timerInterval = TRUE, !.flows[f].map = "settled"],
              f, 0, len)

\* main.js:317-330  startGame after the boot sequence: the game screen, then
\* initMap again (map.js:21-26: the existing viewer, or a new one; mapOk: the
\* constructor of the viewer does not throw)
afterBootPause(w, f, mapOk, len) ==
    LET w1 == [w EXCEPT !.screen = "game"]
    IN IF w1.viewer THEN afterMapTiles(w1, f, len)
       ELSE IF mapOk
            THEN [w1 EXCEPT !.viewer = TRUE, !.flows[f].pc = "mapTiles"]
            ELSE finish(w1, f)

\* a flow that goes on when the first of its warmups has settled
afterWarmupEither(w, f) ==
    IF w.flows[f].pc = "warmup" /\ (w.flows[f].map = "settled" \/ w.flows[f].ai = "settled")
    THEN [w EXCEPT !.flows[f].pc = "bootPause"]
    ELSE w

\* main.js:201-205  Promise.all of the two warmups, then the 500 ms pause
afterWarmup(w, f) ==
    IF w.flows[f].pc = "warmup" /\ w.flows[f].map = "settled" /\ w.flows[f].ai = "settled"
    THEN [w EXCEPT !.flows[f].pc = "bootPause"]
    ELSE w

\* a warmup of flow f ("map" or "ai") settles; last: the warmup that settled
\* while the other one was settled already
warmupSettled(w, f, which) ==
    LET other == IF which = "map" THEN w.flows[f].ai ELSE w.flows[f].map
        w1 == [w EXCEPT !.flows[f].last = IF other = "settled" THEN which ELSE @]
    IN afterWarmup(IF which = "map" THEN [w1 EXCEPT !.flows[f].map = "settled"]
                   ELSE [w1 EXCEPT !.flows[f].ai = "settled"], f)

\* main.js:198-201  the boot lines are shown: the flow awaits both warmups
afterBootLines(w, f) == afterWarmup([w EXCEPT !.flows[f].pc = "warmup"], f)

\* main.js:308-315, 176-188  startGame up to the first timer of the boot lines
startGame(w, f, mapOk, edge) ==
    LET res == init(w.eng, NewCall("init", 0), edge)
    IN [w EXCEPT !.state.currentStage = 0, !.state.totalHintsUsed = 0,
                 !.state.hintLevel = 0, !.state.elapsedSeconds = 0,
                 !.state.gameStarted = TRUE,
                 !.screen = "boot", !.endings = 0,
                 !.viewer = @ \/ mapOk,
                 !.eng = res.eng, !.calls[f] = res.call, !.ret = res.ret,
                 !.flows[f] = [pc |-> "bootLines", stage |-> 0, req |-> 0,
                               map |-> IF ~w.viewer /\ mapOk THEN "pending" ELSE "settled",
                               ai |-> IF res.call = Idle THEN "settled" ELSE "pending",
                               last |-> "none", rank |-> "none", sky |-> "none"]]

\* the continuation of flow f when the speech it awaits has completed
speechDone(w, f) ==
    LET at == w.flows[f].pc
    IN IF at = "L_narr" THEN afterNarration(w, f)
       ELSE IF at = "L_pspeech" THEN finish(w, f)
       ELSE IF at = "A_nspeech" THEN [w EXCEPT !.flows[f].pc = "A_trans2"]
       ELSE afterCorrectSpeech(w, f)

\* the flows whose awaited completion signal is resolved
Resumable(w) ==
    {f \in Flow : /\ w.flows[f].pc \in SpeechPcs
                  /\ w.flows[f].req # 0 /\ w.flows[f].req \in w.tts.resolved}

\* a task of tts.js has left the Sequencer in s: the flow whose signal it
\* resolved continues in the same task
ttsStep(w, s) ==
    LET w1 == [w EXCEPT !.tts = s]
    IN IF Resumable(w1) = {} THEN w1
       ELSE speechDone(w1, CHOOSE f \in Resumable(w1) : TRUE)

\* the replies of the sessions followed in a game: a failure, a reply without
\* text, and a usable text without and with the marker
GameTexts(src) == {Text(src, 0, EdgePuzzleOver + 1, c) : c \in BOOLEAN}

GameCloudReplies ==
    {r \in CloudReplies : r.kind \in {"throw", "noparts"} \/ r.text \in GameTexts("cloud")}

GameEdgeReplies ==
    {r \in EdgeReplies : r.kind \in {"throw", "undefined"} \/ r.text \in GameTexts("edge")}

\* the results the request awaited by call c can have
EngineResults(e, c) ==
    IF c.pc = "capabilities"
    THEN {initCapabilities(e, c, o) : o \in {"throw", "no", "available"}}
    ELSE IF c.pc = "create"
    THEN {initCreate(e, c, o) : o \in {"throw", "ok"}}
    ELSE IF c.pc = "backoff"
    THEN {evalBackoff(e, c)}
    ELSE IF c.pc = "cloud"
    THEN {IF c.op = "generatePuzzle" THEN puzzleCloud(e, c, reply)
          ELSE IF c.op = "evaluateAnswer" THEN evalCloud(e, c, reply)
          ELSE IF c.op = "requestHint" THEN hintCloud(e, c, reply)
          ELSE storyCloud(e, c, reply, StoryFallback(c.op)) : reply \in GameCloudReplies}
    ELSE IF c.pc = "edge"
    THEN {IF c.op = "generatePuzzle" THEN puzzleEdge(e, c, reply)
          ELSE IF c.op = "evaluateAnswer" THEN evalEdge(e, c, reply)
          ELSE hintEdge(e, c, reply) : reply \in GameEdgeReplies}
    ELSE {}

\* a task of the Engine call of flow f has ended in res
engineStep(w, f, res) ==
    [w EXCEPT !.eng = res.eng, !.calls[f] = res.call, !.ret = res.ret]

\* the flow of the next handler run: the first one that has not run
FreeFlow(f) ==
    /\ flows[f].pc = "idle" /\ calls[f] = Idle
    /\ \A j \in Flow : j < f => flows[j].pc # "idle"
    /\ Cardinality({j \in Flow : flows[j].pc \notin {"idle", "done"}}) < MaxBusy

\* the flow of the next handler run, for an answer or a hint request
TalkFlow(f) == FreeFlow(f) /\ f <= MaxTalk

(***************************************************************************)
(* The tasks of the game: the user's inputs, the timers, and the returns   *)
(* of the requests of the Engine and the Sequencer, each with the          *)
(* continuation of the handler that awaits it.                             *)
(***************************************************************************)
\* main.js:543-546  the start button (shown on the title screen)
ClickStart ==
    \E f \in Flow, mapOk \in BOOLEAN, edge \in BOOLEAN :
        /\ screen = "title" /\ FreeFlow(f)
        /\ SetWorld(startGame(World, f, mapOk, edge))

\* main.js:548-554  the restart button (shown on the ending screen)
ClickRestart ==
    /\ screen = "ending"
    /\ SetWorld([World EXCEPT !.tts = stopSpeaking(TtsState),
                              !.screen = "title",
                              !.state.timerInterval = FALSE])

\* onSendAnswer without the test of the processing flag
SubmitAnswerUnguarded ==
    \E f \in Flow, len \in GameLens :
        /\ screen = "game" /\ TalkFlow(f)
        /\ LET w0 == [World EXCEPT !.state.isProcessing = TRUE]
               c == NewCall("evaluateAnswer", 0)
               w1 == callEngine(w0, f, evaluateAnswer(w0.eng, c), "Q_eval")
           IN SetWorld(IF Waiting(w1, f, "Q_eval") THEN w1 ELSE afterEval(w1, f, len))

\* main.js:462-464, 488-523  onSendAnswer with an answer that is no command
SubmitAnswer ==
    \E f \in Flow, len \in GameLens :
        /\ screen = "game" /\ TalkFlow(f)
        /\ ~state.isProcessing
        /\ LET w0 == [World EXCEPT !.state.isProcessing = TRUE]
               c == NewCall("evaluateAnswer", 0)
               w1 == callEngine(w0, f, evaluateAnswer(w0.eng, c), "Q_eval")
           IN SetWorld(IF Waiting(w1, f, "Q_eval") THEN w1 ELSE afterEval(w1, f, len))

\* main.js:462-475  onSendAnswer with the text /skip
SubmitSkip ==
    \E f \in Flow :
        /\ screen = "game" /\ FreeFlow(f)
        /\ ~state.isProcessing
        /\ SetWorld(advanceStage([World EXCEPT !.tts = stopSpeaking(TtsState),
                                               !.state.isProcessing = FALSE], f))

\* onSendAnswer whose /end goes through advanceStage
SubmitEndAdvances ==
    \E f \in Flow :
        /\ screen = "game" /\ FreeFlow(f)
        /\ ~state.isProcessing
        /\ SetWorld(advanceStage([World EXCEPT !.tts = stopSpeaking(TtsState),
                                               !.state.isProcessing = FALSE], f))

\* main.js:462-464, 477-486  onSendAnswer with the text /end
SubmitEnd ==
    \E f \in Flow :
        /\ screen = "game" /\ FreeFlow(f)
        /\ ~state.isProcessing
        /\ SetWorld(endGame([World EXCEPT !.tts = stopSpeaking(TtsState),
                                          !.state.isProcessing = FALSE], f))

\* onHintRequest that raises the hint level with no cap
ClickHintUncapped ==
    \E f \in Flow, len \in GameLens :
        /\ screen = "game" /\ TalkFlow(f)
        /\ ~state.isProcessing
        /\ LET w0 == [World EXCEPT
                          !.state.hintLevel = @ + 1,
                          !.state.totalHintsUsed = @ + 1,
                          !.state.isProcessing = TRUE]
               c == NewCall("requestHint", w0.state.hintLevel)
               w1 == callEngine(w0, f, requestHint(w0.eng, c), "H_hint")
           IN SetWorld(IF Waiting(w1, f, "H_hint") THEN w1 ELSE afterHint(w1, f, len))

\* main.js:525-540  onHintRequest
ClickHint ==
    \E f \in Flow, len \in GameLens :
        /\ screen = "game" /\ TalkFlow(f)
        /\ ~state.isProcessing
        /\ LET w0 == [World EXCEPT
                          !.state.hintLevel = IF @ + 1 < HintCap THEN @ + 1 ELSE HintCap,
                          !.state.totalHintsUsed = @ + 1,
                          !.state.isProcessing = TRUE]
               c == NewCall("requestHint", w0.state.hintLevel)
               w1 == callEngine(w0, f, requestHint(w0.eng, c), "H_hint")
           IN SetWorld(IF Waiting(w1, f, "H_hint") THEN w1 ELSE afterHint(w1, f, len))

\* main.js:570-572  the voice skip button
ClickVoiceSkip ==
    /\ screen = "game"
    /\ SetWorld([World EXCEPT !.tts = stopSpeaking(TtsState)])

\* main.js:575-580  the voice toggle
ClickVoiceToggle ==
    /\ screen = "game"
    /\ SetWorld([World EXCEPT !.tts = toggleTTS(TtsState)])

\* main.js:188-198  the last timer of the boot lines fires
BootLinesShown ==
    \E f \in Flow :
        /\ flows[f].pc = "bootLines"
        /\ SetWorld(afterBootLines(World, f))

\* map.js:85-99  the tiles are loaded (or failed to load): the initMap of the
\* boot sequence returns
MapWarmupReturns ==
    \E f \in Flow :
        /\ flows[f].map = "pending" /\ flows[f].pc # "mapTiles"
        /\ SetWorld(warmupSettled(World, f, "map"))

\* map.js:85-99  the tiles are loaded: the initMap of main.js:330 returns
MapTilesLoaded ==
    \E f \in Flow, len \in GameLens :
        /\ flows[f].pc = "mapTiles"
        /\ SetWorld(afterMapTiles(World, f, len))

\* main.js:205  the 500 ms pause after the boot sequence is over
BootPauseElapses ==
    \E f \in Flow, mapOk \in BOOLEAN, len \in GameLens :
        /\ flows[f].pc = "bootPause"
        /\ SetWorld(afterBootPause(World, f, mapOk, len))

\* main.js:361  the 3500 ms timer of the camera flight fires
CameraArrives ==
    \E f \in Flow, edge \in BOOLEAN, len \in GameLens :
        /\ flows[f].pc = "L_cam"
        /\ SetWorld(afterCamera(World, f, edge, len))

\* main.js:395, 294-305  the timer of the first transition of advanceStage fires
FirstTransitionEnds ==
    \E f \in Flow, edge \in BOOLEAN, len \in GameLens :
        /\ flows[f].pc = "A_trans1"
        /\ SetWorld(afterTrans1(World, f, edge, len))

\* main.js:409-410  the timer of the second transition of advanceStage fires
SecondTransitionEnds ==
    \E f \in Flow, len \in GameLens :
        /\ flows[f].pc = "A_trans2"
        /\ SetWorld(loadStage(World, f, flows[f].stage, len))

\* main.js:417  the timer of the transition of endGame fires
EndTransitionEnds ==
    \E f \in Flow, edge \in BOOLEAN, len \in GameLens :
        /\ flows[f].pc = "E_trans"
        /\ SetWorld(afterEndTransition(World, f, edge, len))

\* map.js:252-273  the last timer of the sky animation fires
SkyCleared ==
    \E f \in Flow, len \in GameLens :
        /\ flows[f].sky = "running"
        /\ SetWorld(skyCleared(World, f, len))

\* a request of the init call of the boot sequence returns
WarmupReturns ==
    \E f \in Flow :
        /\ calls[f].op = "init"
        /\ \E res \in EngineResults(EngState, calls[f]) :
             LET w1 == engineStep(World, f, res)
             IN SetWorld(IF res.call = Idle
                         THEN warmupSettled(w1, f, "ai")
                         ELSE w1)

\* a request of the generatePuzzle call of a loadStage returns
PuzzleReturns ==
    \E f \in Flow, len \in GameLens :
        /\ calls[f].op = "generatePuzzle"
        /\ \E res \in EngineResults(EngState, calls[f]) :
             LET w1 == engineStep(World, f, res)
             IN SetWorld(IF res.call = Idle
                         THEN afterPuzzle(w1, f, cleanLen(w1.ret.text, len))
                         ELSE w1)

\* a request of the generateNarration call of an advanceStage returns
NarrationReturns ==
    \E f \in Flow, len \in GameLens :
        /\ calls[f].op = "generateNarration"
        /\ \E res \in EngineResults(EngState, calls[f]) :
             LET w1 == engineStep(World, f, res)
             IN SetWorld(IF res.call = Idle THEN afterNarr(w1, f, len) ELSE w1)

\* a request of the generateEndingStory call of an endGame returns
StoryReturns ==
    \E f \in Flow, len \in GameLens :
        /\ calls[f].op = "generateEndingStory"
        /\ \E res \in EngineResults(EngState, calls[f]) :
             LET w1 == engineStep(World, f, res)
             IN SetWorld(IF res.call = Idle THEN afterStory(w1, f, len) ELSE w1)

\* a request (or the backoff timer) of the evaluateAnswer call of an
\* onSendAnswer returns
EvalReturns ==
    \E f \in Flow, len \in GameLens :
        /\ calls[f].op = "evaluateAnswer"
        /\ \E res \in EngineResults(EngState, calls[f]) :
             LET w1 == engineStep(World, f, res)
             IN SetWorld(IF res.call = Idle THEN afterEval(w1, f, len) ELSE w1)

\* a request of the requestHint call of an onHintRequest returns
HintReturns ==
    \E f \in Flow, len \in GameLens :
        /\ calls[f].op = "requestHint"
        /\ \E res \in EngineResults(EngState, calls[f]) :
             LET w1 == engineStep(World, f, res)
             IN SetWorld(IF res.call = Idle THEN afterHint(w1, f, len) ELSE w1)

\* the synthesis request of r returns
SpeechFetchReturns ==
    \E r \in Req, outcome \in {"ok", "status", "throw"} :
        /\ pc[r] = "fetch"
        /\ SetWorld(ttsStep(World, fetchReturned(TtsState, r, outcome)))

\* the body of the synthesis response of r is read; the audio may start
SpeechJsonReturns ==
    \E r \in Req, outcome \in {"audio", "empty", "throw"}, plays \in BOOLEAN :
        /\ pc[r] = "json"
        /\ SetWorld(ttsStep(World, jsonReturned(TtsState, r, outcome, plays)))

\* the audio of r plays to its end
SpeechAudioEnded ==
    \E r \in sounding :
        SetWorld(ttsStep(World, audioEnded(TtsState, r)))

\* the Audio element of r reports an error while playing
SpeechAudioError ==
    \E r \in sounding :
        SetWorld(ttsStep(World, audioErrored(TtsState, r)))

GameNext ==
    \/ ClickStart
    \/ ClickRestart
    \/ SubmitAnswer
    \/ SubmitSkip
    \/ SubmitEnd
    \/ ClickHint
    \/ ClickVoiceSkip
    \/ ClickVoiceToggle
    \/ BootLinesShown
    \/ MapWarmupReturns
    \/ MapTilesLoaded
    \/ BootPauseElapses
    \/ CameraArrives
    \/ FirstTransitionEnds
    \/ SecondTransitionEnds
    \/ EndTransitionEnds
    \/ SkyCleared
    \/ WarmupReturns
    \/ PuzzleReturns
    \/ NarrationReturns
    \/ StoryReturns
    \/ EvalReturns
    \/ HintReturns
    \/ SpeechFetchReturns
    \/ SpeechJsonReturns
    \/ SpeechAudioEnded
    \/ SpeechAudioError

\* the tasks of a start of the game up to the first puzzle
BootNext ==
    \/ ClickStart
    \/ BootLinesShown
    \/ MapWarmupReturns
    \/ MapTilesLoaded
    \/ BootPauseElapses
    \/ WarmupReturns
    \/ CameraArrives
    \/ PuzzleReturns
    \/ SpeechFetchReturns
    \/ SpeechJsonReturns
    \/ SpeechAudioEnded
    \/ SpeechAudioError

\* the tasks of the stages: the start, /skip, the voice skip, and what they await
LoadNext ==
    \/ ClickStart
    \/ SubmitSkip
    \/ ClickVoiceSkip
    \/ BootLinesShown
    \/ MapWarmupReturns
    \/ MapTilesLoaded
    \/ BootPauseElapses
    \/ CameraArrives
    \/ FirstTransitionEnds
    \/ SecondTransitionEnds
    \/ WarmupReturns
    \/ PuzzleReturns
    \/ NarrationReturns
    \/ SpeechFetchReturns
    \/ SpeechJsonReturns
    \/ SpeechAudioEnded
    \/ SpeechAudioError

\* the tasks of a game played with the commands /skip and /end
SkipNext ==
    \/ ClickStart
    \/ SubmitSkip
    \/ SubmitEnd
    \/ BootLinesShown
    \/ MapWarmupReturns
    \/ MapTilesLoaded
    \/ BootPauseElapses
    \/ CameraArrives
    \/ FirstTransitionEnds
    \/ SecondTransitionEnds
    \/ EndTransitionEnds
    \/ SkyCleared
    \/ WarmupReturns
    \/ PuzzleReturns
    \/ NarrationReturns
    \/ StoryReturns
    \/ SpeechFetchReturns
    \/ SpeechJsonReturns
    \/ SpeechAudioEnded
    \/ SpeechAudioError

\* the tasks of the commands of a game, up to the timers of their transitions
GuardNext ==
    \/ ClickStart
    \/ SubmitAnswer
    \/ SubmitSkip
    \/ SubmitEnd
    \/ ClickHint
    \/ BootLinesShown
    \/ MapWarmupReturns
    \/ MapTilesLoaded
    \/ BootPauseElapses
    \/ CameraArrives
    \/ WarmupReturns
    \/ PuzzleReturns
    \/ EvalReturns
    \/ HintReturns
    \/ SpeechFetchReturns
    \/ SpeechJsonReturns
    \/ SpeechAudioEnded
    \/ SpeechAudioError

\* the tasks of the hints of a stage and of the move to the next stage
HintNext ==
    \/ ClickHint
    \/ SubmitSkip
    \/ CameraArrives
    \/ FirstTransitionEnds
    \/ SecondTransitionEnds
    \/ PuzzleReturns
    \/ NarrationReturns
    \/ HintReturns
    \/ SpeechFetchReturns
    \/ SpeechJsonReturns
    \/ SpeechAudioEnded
    \/ SpeechAudioError

\* the tasks of the end of a session and of the start of the next one, up to
\* the first timer of its boot sequence
RestartNext ==
    \/ ClickStart
    \/ ClickRestart
    \/ SubmitAnswer
    \/ SubmitEnd
    \/ ClickHint
    \/ EndTransitionEnds
    \/ SkyCleared
    \/ StoryReturns
    \/ EvalReturns
    \/ HintReturns
    \/ SpeechFetchReturns
    \/ SpeechJsonReturns
    \/ SpeechAudioEnded
    \/ SpeechAudioError

\* the tasks of a start of the game with the voice skip
VoiceNext ==
    \/ ClickStart
    \/ ClickVoiceSkip
    \/ BootLinesShown
    \/ MapWarmupReturns
    \/ MapTilesLoaded
    \/ BootPauseElapses
    \/ WarmupReturns
    \/ CameraArrives
    \/ PuzzleReturns
    \/ SpeechFetchReturns
    \/ SpeechJsonReturns
    \/ SpeechAudioEnded
    \/ SpeechAudioError

TTSNext ==
    \/ Speak
    \/ SpeakAndWait
    \/ StopSpeaking
    \/ StopThenSpeak
    \/ SkipAndProceed
    \/ ToggleTTS
    \/ FetchReturns
    \/ JsonReturns
    \/ AudioEnded
    \/ AudioError

vars == <<ttsVars, ttsHist, engVars, orchVars>>

Init == TTSInit /\ EngInit /\ OrchInit

\* the Engine has an API key; the Speech Sequencer reads nothing of the Engine
WithKey == Init /\ cloudModel

\* the Speech Sequencer under every caller
TTSSpec == WithKey /\ [][TTSNext]_vars

\* request r moves on: its synthesis request or the read of its body returns,
\* or its audio, still playing, ends or fails
Completes(r) ==
    /\ InSynthesis(r) \/ r \in sounding
    /\ TTSNext
    /\ pc'[r] # pc[r]

\* the Speech Sequencer when every synthesis request returns and every audio
\* that keeps playing ends
TTSFairSpec == WithKey /\ [][TTSNext]_vars /\ \A r \in Req : WF_vars(Completes(r))

\* the queued path alone: speak and stopSpeaking calls and the completions
QueueNext ==
    \/ Speak
    \/ StopSpeaking
    \/ StopThenSpeak
    \/ FetchReturns
    \/ JsonReturns
    \/ AudioEnded
    \/ AudioError

QueueSpec == WithKey /\ [][QueueNext]_vars

\* the Engine under every caller
EngineSpec == Init /\ [][EngineNext]_vars

\* init and evaluateAnswer calls alone: no other method writes what
\* evaluateAnswer reads (the sessions and the counters)
EvalNext ==
    \/ CallInit
    \/ CallEvaluateAnswer
    \/ CapabilitiesReturns
    \/ CreateReturns
    \/ EvalEdgeReturns
    \/ EvalCloudReturns
    \/ EvalBackoffElapses

\* evaluateAnswer when every request and timer a call awaits returns or fails
EvalFairSpec ==
    Init /\ [][EvalNext]_vars /\ \A k \in EngineSlot : WF_vars(EvalStep(k))

\* the whole program: the tasks of both components interleave
Next == TTSNext \/ EngineNext

Spec == Init /\ [][Next]_vars

\* calculateRank over the elapsed times and hint counts a game can end with
GameSpec == Init /\ [][GameNext]_vars

BootSpec == Init /\ [][BootNext]_vars

LoadSpec == Init /\ [][LoadNext]_vars

SkipSpec == Init /\ [][SkipNext]_vars

GuardSpec == Init /\ [][GuardNext]_vars

VoiceSpec == Init /\ [][VoiceNext]_vars

HintSpec == HintInit /\ [][HintNext]_vars

RestartSpec == RestartInit /\ [][RestartNext]_vars

DiffSpec == DiffInit /\ [][GetDifficultyModifier]_vars

RankSpec == RankInit /\ [][CalculateRank]_vars

\* the tasks of the ending and of the hints requested meanwhile
SummaryNext ==
    \/ SubmitEnd
    \/ ClickHint
    \/ EndTransitionEnds
    \/ SkyCleared
    \/ StoryReturns
    \/ HintReturns
    \/ SpeechFetchReturns
    \/ SpeechJsonReturns
    \/ SpeechAudioEnded
    \/ SpeechAudioError

SummarySpec == SummaryInit /\ [][SummaryNext]_vars

(***************************************************************************)
(* Properties of the Speech Sequencer.                                     *)
(***************************************************************************)
\* C1: at most one audio element is playing at a time, in every reachable
\* state, also when a queued speak is submitted while a speakAndWait item plays.
C1_OneAudioAtATime == Cardinality(sounding) <= 1

\* C2: after stopSpeaking() followed immediately by speak(t), no audio of a
\* request submitted before the stop starts.
C2_NoLeakAfterStopThenSpeak == [][preStop \cap Started' = {}]_vars

\* C3: a request that was in synthesis when stopSpeaking or skipAndProceed was
\* called never starts its audio.
C3_CancelledInSynthesisNeverStarts == [][cancelled \cap Started' = {}]_vars

\* C4: a skipAndProceed call made while a speakAndWait request is pending
\* resolves the completion signal of that (newest pending) request within the call.
C4_SkipResolvesPending ==
    [][SkipAndProceed => (NewestPending # 0 => NewestPending \in resolved')]_vars

\* the queued requests a processQueue loop is awaiting and that will resume it
LiveQueueItems ==
    {r \in Req : kind[r] = "queued" /\ (InSynthesis(r) \/ r \in sounding)}

\* C5: at most one queue-consumer loop is active: at most one queued item is
\* in synthesis or playing at a time.
C5_OneQueueConsumer == Cardinality(LiveQueueItems) <= 1

\* C6: when synthesis or playback of a speakAndWait request has failed (fetch
\* threw, non-OK status, no audio content, audio error, play refused), its
\* completion signal is resolved.
C6_FailureResolves == Failed \subseteq resolved

\* C6 witness: a speakAndWait request whose audio errored while playing, and
\* another whose synthesis failed, both resolved.
C6_Witness ==
    \E r, q \in Failed :
        /\ pc[r] = "errored" /\ pc[q] = "failed"
        /\ {r, q} \subseteq resolved


(***************************************************************************)
(* Properties of the Engine.                                               *)
(***************************************************************************)
\* an evaluateAnswer call returns in this step with an AI verdict whose text
\* contains (correct = TRUE) or lacks the marker [CORRECT]
VerdictReturns(correct) ==
    \E k \in Slot :
        /\ calls[k].op = "evaluateAnswer" /\ calls'[k] = Idle
        /\ ret'.upd = 1 /\ ret'.text.correct = correct

\* C7: consecutiveCorrect and consecutiveWrong are never both non-zero, under
\* every sequence of Engine calls and AI outcomes; a step in which an
\* evaluation returns a verdict with the correct marker leaves
\* consecutiveCorrect one more than before and consecutiveWrong 0, and a
\* verdict without it leaves consecutiveWrong one more and consecutiveCorrect 0.
C7_CountersExclusive ==
    /\ [](consecutiveCorrect = 0 \/ consecutiveWrong = 0)
    /\ [][/\ VerdictReturns(TRUE) =>
                /\ consecutiveCorrect' = consecutiveCorrect + 1
                /\ consecutiveWrong' = 0
          /\ VerdictReturns(FALSE) =>
                /\ consecutiveWrong' = consecutiveWrong + 1
                /\ consecutiveCorrect' = 0]_vars

\* C7 witness: a correct verdict has just been returned at the end of a streak
\* of correct ones.
C7_Witness ==
    /\ ret.op = "evaluateAnswer" /\ ret.upd = 1 /\ ret.text.correct
    /\ consecutiveCorrect = MaxCount /\ consecutiveWrong = 0

\* C8: the text generatePuzzle returns is never empty; it is a usable reply of
\* an AI model or, when every AI call failed, the canned puzzle of the stage
\* id for ids 1..NumCanned and the generic canned puzzle for any other id.
C8_PuzzleNeverEmpty ==
    ret.op = "generatePuzzle" =>
        /\ ret.text.len > 0
        /\ ret.text.src = "cloud" => ret.text.len >= MinCloudPuzzleLen
        /\ ret.text.src = "edge" => ret.text.len > EdgePuzzleOver
        /\ ret.text.src \notin {"cloud", "edge"} =>
              IF ret.arg \in 1..NumCanned
              THEN /\ ret.text.src = "cannedPuzzle" /\ ret.text.id = ret.arg
                   /\ ret.text.len = CannedLen[ret.arg]
              ELSE ret.text = Fixed("genericPuzzle")

\* C8 witness: generatePuzzle of the last canned stage asked the cloud, then
\* the edge, both failed, and the canned puzzle of that stage was returned.
C8_Witness ==
    /\ ret.op = "generatePuzzle" /\ ret.arg = NumCanned
    /\ ret.sent = 1 /\ ret.asked = 1
    /\ ret.text.src = "cannedPuzzle" /\ ret.text.id = NumCanned

\* C9: evaluateAnswer, requestHint, generateNarration and generateEndingStory
\* return a non-empty text for every outcome of their AI calls.
C9_NeverEmptyText ==
    ret.op \in {"evaluateAnswer", "requestHint", "generateNarration",
                "generateEndingStory"} => ret.text.len > 0

\* a call or a return x of evaluateAnswer has made at most MaxAttempts attempts
AttemptsBounded(x) ==
    /\ x.sent <= MaxAttempts
    /\ x.attempt <= MaxAttempts

\* the return of evaluateAnswer after its attempts are used up is the fixed
\* 'unstable' response, tagged wrong, and no other return is
UnstableWhenExhausted ==
    ret.op = "evaluateAnswer" =>
        /\ AttemptsBounded(ret)
        /\ ret.attempt = MaxAttempts <=>
              (ret.text = Fixed("unstable") /\ ~ret.text.correct /\ ret.upd = 0)

C11_EdgeFirst ==
    /\ [][\A k \in Slot :
            /\ (calls[k] = Idle /\ calls'[k].op = "evaluateAnswer" /\ localAiSession)
                   => /\ calls'[k].pc = "edge"
                      /\ calls'[k].asked = 1 /\ calls'[k].sent = 0
            /\ (calls[k].op = "evaluateAnswer" /\ calls[k].pc = "edge"
                    /\ calls'[k] = Idle /\ ret'.text.src = "edge")
                   => /\ ret'.sent = 0 /\ ret'.upd = 1
                      /\ IF ret'.text.correct
                         THEN /\ consecutiveCorrect' = consecutiveCorrect + 1
                              /\ consecutiveWrong' = 0
                         ELSE /\ consecutiveWrong' = consecutiveWrong + 1
                              /\ consecutiveCorrect' = 0]_vars
    /\ [](/\ \A k \in Slot :
               (calls[k].op = "evaluateAnswer" /\ calls[k].sent > 0 /\ calls[k].asked > 0)
                   => calls[k].pc # "edge"
          /\ (ret.op = "evaluateAnswer" /\ ret.text.src = "edge")
                 => (ret.sent = 0 /\ ret.asked = 1 /\ ret.upd = 1)
          /\ (ret.op = "evaluateAnswer" /\ ret.asked = 1 /\ ret.sent > 0)
                 => ret.text.src # "edge")

\* C11 witness: the edge session was asked and its verdict returned with no
\* cloud request, in an Engine that has a cloud session too.
C11_Witness ==
    /\ ret.op = "evaluateAnswer" /\ ret.text.src = "edge" /\ ret.text.correct
    /\ ret.asked = 1 /\ ret.sent = 0 /\ chatSession /\ consecutiveCorrect = 1

(***************************************************************************)
(* Properties of the Orchestrator.                                         *)
(***************************************************************************)
\* the rank as the bands describe it: S, A, B, C, D are 0..4, best first
BandRank(t, h) ==
    IF h = 0 /\ t < 300 THEN 0
    ELSE IF h <= 2 /\ t < 600 THEN 1
    ELSE IF h <= 5 /\ t < 900 THEN 2
    ELSE IF t < 1200 THEN 3
    ELSE 4

RankName == <<"S", "A", "B", "C", "D">>

\* C12: the rank shown is S iff h = 0 and t < 300, else A iff h <= 2 and
\* t < 600, else B iff h <= 5 and t < 900, else C iff t < 1200, else D, for
\* every elapsed time t and hint count h; (250,0) gives S, (500,2) A, (700,5) B,
\* (1000,0) C, (1300,0) D; and no rank is better than the rank of a smaller t
\* or h.
C12_RankBands ==
    finalRank # "" =>
        LET t == state.elapsedSeconds
            h == state.totalHintsUsed
        IN /\ finalRank = RankName[BandRank(t, h) + 1]
           /\ calculateRank(250, 0) = "S" /\ calculateRank(500, 2) = "A"
           /\ calculateRank(700, 5) = "B" /\ calculateRank(1000, 0) = "C"
           /\ calculateRank(1300, 0) = "D"
           /\ \A t2 \in Times, h2 \in Hints :
                  (t2 >= t /\ h2 >= h) =>
                      \E i, j \in 1..5 :
                          /\ RankName[i] = finalRank
                          /\ RankName[j] = calculateRank(t2, h2)
                          /\ i <= j

\* C12 witness: a game that ended at the upper end of the time band of rank A
\* with no hint is shown rank B.
C12_Witness ==
    finalRank = "B" /\ state.elapsedSeconds = 600 /\ state.totalHintsUsed = 0

\* the places of a flow inside loadStage
LoadPcs == {"L_narr", "L_cam", "L_puzzle", "L_pspeech"}

\* flow f has both warmups of its boot sequence settled
BothSettled(f) ==
    /\ flows[f].map = "settled" /\ flows[f].ai = "settled"
    /\ calls[f].op # "init"

\* C14: startGame shows the game screen, starts the clock and loads stage 0
\* only after both the map warmup and the AI session warmup have settled, in
\* whichever order they complete: a startGame flow is past its Promise.all only
\* with both settled, and each of the three happens in a step of such a flow.
C14_BothWarmupsFirst ==
    /\ [](\A f \in Flow :
             (flows[f].map # "none" /\ flows[f].pc \notin {"bootLines", "warmup"})
                 => BothSettled(f))
    /\ [][(\/ screen' = "game" /\ screen # "game"
           \/ state'.timerInterval /\ ~state.timerInterval
           \/ \E f \in Flow : /\ flows'[f].pc \in LoadPcs /\ flows'[f].stage = 0
                              /\ flows[f].pc \notin LoadPcs)
          => \E f \in Flow : /\ flows[f].pc \in {"bootPause", "mapTiles"}
                             /\ BothSettled(f)
                             /\ flows'[f].pc # flows[f].pc]_vars

\* C14 witness: the map warmup settled after the AI warmup, and the game screen
\* is shown, the clock runs and stage 0 is being loaded.
C14_Witness ==
    \E f \in Flow :
        /\ flows[f].last = "map" /\ flows[f].pc \in LoadPcs /\ flows[f].stage = 0
        /\ screen = "game" /\ state.timerInterval

\* C15: within loadStage the camera move, the marker and the puzzle request
\* come only after the completion signal of the narration speech has resolved
\* (req = 0: it was resolved at once, nothing was spoken), and loadStage
\* returns, the stage awaiting an answer, only after the signal of the puzzle
\* speech has resolved.
C15_LoadStageOrder ==
    /\ [](\A f \in Flow :
             /\ flows[f].pc \in {"L_cam", "L_puzzle"} =>
                    (flows[f].req = 0 \/ flows[f].req \in resolved)
             /\ calls[f].op = "generatePuzzle" => flows[f].pc = "L_puzzle")
    /\ [][\A f \in Flow :
             /\ (calls'[f].op = "generatePuzzle" /\ calls[f] = Idle) =>
                    flows[f].pc = "L_cam"
             /\ (flows[f].pc \in LoadPcs /\ flows'[f].pc = "done") =>
                    \/ /\ flows[f].pc = "L_pspeech"
                       /\ flows[f].req \notin resolved
                       /\ pc[flows[f].req] \in {"fetch", "json", "playing"}
                    \/ /\ flows[f].pc \in {"L_cam", "L_puzzle"}
                       /\ currentSpeakResolve' = currentSpeakResolve]_vars

\* C15 witness: the loadStage of the second stage has asked the Engine for the
\* puzzle after a narration speech that was spoken and has completed.
C15_Witness ==
    \E f \in Flow :
        /\ flows[f].pc = "L_puzzle" /\ flows[f].stage = 1
        /\ flows[f].req # 0 /\ flows[f].req \in resolved
        /\ calls[f].op = "generatePuzzle"

\* C13: once the ending sequence has been triggered and the stage index has
\* passed the last stage, no further command triggers another ending sequence
\* in the session.
C13_EndingOnce ==
    [][(endings >= 1 /\ state.currentStage >= NumStages) => endings' <= endings]_vars

\* a loadStage of the current stage is under way
LoadingCurrentStage ==
    \E g \in Flow : flows[g].pc \in LoadPcs /\ flows[g].stage = state.currentStage

\* C16: an answer is accepted, an evaluateAnswer call started, only when the
\* puzzle speech of the stage has completed: never while the loadStage of the
\* stage is narrating, moving the camera, generating the puzzle or speaking it.
C16_AnswerAfterPuzzleSpeech ==
    [][\A f \in Flow :
          (flows[f].pc = "idle" /\ flows'[f].pc = "Q_eval") => ~LoadingCurrentStage]_vars

\* the places where an answer flow holds the processing flag
EvalPcs == {"Q_eval", "Q_speech"}

\* C17: after an answer is judged correct the stage index is incremented only
\* when the completion signal of the response speech has resolved (in the task
\* that settles the speech, or at once when nothing is spoken), and the
\* processing flag is set from the submission to that resolution.
C17_AdvanceAfterSpeech ==
    /\ [](\A f \in Flow : flows[f].pc \in EvalPcs => state.isProcessing)
    /\ [][\A f \in Flow :
             (flows[f].pc \in EvalPcs /\ state'.currentStage # state.currentStage) =>
                 /\ state'.currentStage = state.currentStage + 1
                 /\ ~state'.isProcessing
                 /\ flows'[f].pc \notin EvalPcs
                 /\ \/ /\ flows[f].pc = "Q_speech"
                       /\ flows[f].req \notin resolved
                       /\ pc[flows[f].req] \in {"fetch", "json", "playing"}
                    \/ /\ flows[f].pc = "Q_eval"
                       /\ currentSpeakResolve' = currentSpeakResolve]_vars

\* C17 witness: the first command of the game was an answer judged correct,
\* its speech has completed and the stage index is 1.
C17_Witness ==
    /\ state.currentStage = 1 /\ consecutiveCorrect = 1 /\ ~state.isProcessing
    /\ flows[2].pc = "A_trans1" /\ flows[3].pc = "idle"
    /\ flows[2].req # 0 /\ pc[flows[2].req] = "ended" /\ flows[2].req \in resolved

\* the Engine calls of answers and hint requests that are outstanding
TalkCalls == {f \in Flow : calls[f].op \in {"evaluateAnswer", "requestHint"}}

\* C18: while the processing flag is set no handler run is started by an answer
\* or a hint request, no hint is counted and no Engine call is issued for one
\* (the call is a silent no-op), and at most one
\* evaluateAnswer or requestHint call is outstanding at any time.
C18_OneTalkCall ==
    /\ [](Cardinality(TalkCalls) <= 1)
    /\ [](\A f \in TalkCalls : state.isProcessing)
    /\ [][state.isProcessing =>
             /\ \A f \in Flow : flows[f].pc = "idle" => flows'[f].pc = "idle"
             /\ state'.totalHintsUsed = state.totalHintsUsed
             /\ TalkCalls' \subseteq TalkCalls]_vars

\* C18 witness: a hint request is outstanding with the flag set, on the game
\* screen, while a further handler run could start.
C18_Witness ==
    /\ state.isProcessing /\ screen = "game"
    /\ \E f \in Flow : calls[f].op = "requestHint"
    /\ \E f \in Flow : TalkFlow(f)

\* C19: during a running game a /skip and an /end are accepted at any time,
\* also while the processing flag is set.
C19_CommandsAlwaysAccepted ==
    (screen = "game" /\ endings < MaxEndings /\ \E f \in Flow : FreeFlow(f)) =>
        (ENABLED SubmitSkip /\ ENABLED SubmitEnd)

\* C20: no flow stays blocked on a priority speech that has been halted: the
\* speech a flow awaits is in synthesis or sounding.
C20_HaltedSpeechUnblocks ==
    \A f \in Flow :
        flows[f].pc \in SpeechPcs =>
            \/ pc[flows[f].req] \in {"fetch", "json"}
            \/ flows[f].req \in sounding

\* a handler run starts in flow f
Starts(f) == flows[f].pc = "idle" /\ flows'[f].pc # "idle"

\* what a command leaves alone: the difficulty counters, the hint level, the
\* cumulative hint count, and the evaluateAnswer calls (none is made)
CommandFrame ==
    /\ consecutiveCorrect' = consecutiveCorrect
    /\ consecutiveWrong' = consecutiveWrong
    /\ state'.hintLevel = state.hintLevel
    /\ state'.totalHintsUsed = state.totalHintsUsed
    /\ \A f \in Flow :
           calls'[f].op = "evaluateAnswer" => calls[f].op = "evaluateAnswer"

SessionFrame ==
    /\ state'.currentStage = state.currentStage
    /\ state'.hintLevel = state.hintLevel
    /\ state'.totalHintsUsed = state.totalHintsUsed

\* the evaluateAnswer call of flow f returns in this step
EvalEnds(f) == calls[f].op = "evaluateAnswer" /\ calls'[f] = Idle

\* the Engine counted a response with the correct marker in this step
MarkerCounted == consecutiveCorrect' = consecutiveCorrect + 1

\* C22: when evaluateAnswer returns a response without the correct marker, the
\* task that handles it leaves the stage index, the hint level and the
\* cumulative hint count unchanged, clears the processing flag and ends the
\* handler run with no stage advance; the stage index changes in a task of an
\* answer submission only when the response had the marker: in the task in
\* which the Engine counted it, or in the task that settles its speech.
C22_WrongAnswerStays ==
    [][\A f \in Flow :
          /\ (Starts(f) /\ SubmitAnswer) =>
                 /\ SessionFrame
                 /\ flows'[f].pc \in {"Q_eval", "done"}
                 /\ state'.isProcessing <=> flows'[f].pc = "Q_eval"
          /\ (flows[f].pc = "Q_eval" /\ EvalEnds(f) /\ ~MarkerCounted) =>
                 /\ SessionFrame
                 /\ ~state'.isProcessing
                 /\ flows'[f].pc = "done"
                 /\ endings' = endings
          /\ (flows[f].pc = "Q_eval" /\ state'.currentStage # state.currentStage) =>
                 EvalEnds(f) /\ MarkerCounted
          /\ (flows[f].pc # "Q_speech" /\ flows'[f].pc = "Q_speech") =>
                 EvalEnds(f) /\ MarkerCounted /\ SessionFrame]_vars

\* C22 witness: the first answer of the game was judged wrong by the AI; the
\* handler run is over, the stage is still the first and the flag is clear.
C22_Witness ==
    /\ screen = "game" /\ consecutiveWrong = 1
    /\ state.currentStage = 0 /\ state.totalHintsUsed = 0 /\ ~state.isProcessing
    /\ flows[2].pc = "done" /\ flows[3].pc = "idle" /\ endings = 0

\* the places from which a handler run calls loadStage when its timer fires
\* or its map is loaded
BeforeLoadPcs == {"A_trans2", "mapTiles"}

\* C23: the hint level is always in 0..3; the task of an accepted hint request
\* raises it by one, up to 3, and raises the cumulative hint count by exactly
\* one, at the cap too; the task that starts a loadStage sets the hint level
\* to 0 and leaves the cumulative count unchanged; the level of every
\* requestHint call is the new hint level and is in 1..3.
C23_HintLevelBounded ==
    /\ [](state.hintLevel \in HintLevels)
    /\ [](\A f \in Flow : calls[f].op = "requestHint" => calls[f].arg \in 1..HintCap)
    /\ [][\A f \in Flow :
             /\ (Starts(f) /\ ClickHint) =>
                    /\ state'.hintLevel =
                           IF state.hintLevel < HintCap THEN state.hintLevel + 1
                           ELSE HintCap
                    /\ state'.totalHintsUsed = state.totalHintsUsed + 1
                    /\ calls'[f].op = "requestHint" => calls'[f].arg = state'.hintLevel
             /\ (flows[f].pc \in BeforeLoadPcs /\ flows'[f].pc # flows[f].pc) =>
                    /\ state'.hintLevel = 0
                    /\ state'.totalHintsUsed = state.totalHintsUsed]_vars

\* C23 witness: a hint asked at the cap was counted, and the loadStage of the
\* next stage has set the hint level to 0 and kept the cumulative count.
C23_Witness ==
    /\ state.currentStage = 1 /\ state.hintLevel = 0
    /\ state.totalHintsUsed = HintCap + 1
    /\ \E f \in Flow : flows[f].pc \in LoadPcs /\ flows[f].stage = 1

\* C24: the task in which startGame begins, at the first start and at a
\* restart after an ending, leaves the stage index, the hint level, the
\* cumulative hint count and the elapsed time at 0 and the processing flag
\* clear, whatever the session before had left.
C24_StartResetsSession ==
    [][\A f \in Flow :
          (Starts(f) /\ ClickStart) =>
              /\ state'.currentStage = 0
              /\ state'.hintLevel = 0
              /\ state'.totalHintsUsed = 0
              /\ state'.elapsedSeconds = 0
              /\ ~state'.isProcessing]_vars

ReadingOps == {"generatePuzzle", "requestHint", "generateNarration",
               "generateEndingStory"}

\* the method whose call in slot k takes this step
SteppingOp(k) == IF calls[k] = Idle THEN calls'[k].op ELSE calls[k].op

\* C26: the difficulty counters are changed by the session initialisation and
\* by evaluateAnswer only: every task of a generatePuzzle, requestHint,
\* generateNarration or generateEndingStory call leaves both counters
\* unchanged, with or without a cloud session.
C26_CountersPersist ==
    [][\A k \in Slot :
          (calls'[k] # calls[k] /\ SteppingOp(k) \in ReadingOps) =>
              /\ consecutiveWrong' = consecutiveWrong
              /\ consecutiveCorrect' = consecutiveCorrect]_vars

\* the cloud path of generatePuzzle returns the text x of its session
CloudAccepts(c, x) ==
    puzzleCloud(EngState, c, [kind |-> "parts", text |-> x]).ret.text = x

\* the edge path of generatePuzzle returns the text y of its session
EdgeAccepts(c, y) ==
    puzzleEdge(EngState, c, [kind |-> "string", text |-> y]).ret.text = y

\* C27: in generatePuzzle a cloud result that is empty or below the minimum
\* length is handled as a cloud error is (the edge session is asked when it
\* exists, then the canned puzzle), and a cloud text and an edge text of the
\* same length are both accepted or both refused.
C27_ShortCloudLikeError ==
    \A k \in Slot :
        (calls[k].op = "generatePuzzle" /\ calls[k].pc = "cloud") =>
            /\ \A reply \in CloudReplies :
                   extractResponseText(reply).len < MinCloudPuzzleLen =>
                       puzzleCloud(EngState, calls[k], reply) =
                           puzzleCatch(EngState, calls[k])
            /\ \A x \in AiTexts("cloud"), y \in AiTexts("edge") :
                   x.len = y.len => (CloudAccepts(calls[k], x) <=> EdgeAccepts(calls[k], y))

\* C28: the narration request composed at a stage advance carries the
\* cumulative hint count the Orchestrator holds at that time: the hint count
\* of the prompt of every generateNarration call made by advanceStage equals
\* state.totalHintsUsed.
C28_NarrationHintCount ==
    [][\A f \in Flow :
          (flows[f].pc = "A_trans1" /\ calls'[f].op = "generateNarration") =>
              calls'[f].arg = state.totalHintsUsed]_vars

\* the places of advanceStage for a stage that is not the last, in their order
AdvanceOrder == <<"A_trans1", "A_narr", "A_nspeech", "A_trans2">>

\* the position of a place of advanceStage in that order, 0 for another place
AdvancePos(at) ==
    IF \E i \in 1..Len(AdvanceOrder) : AdvanceOrder[i] = at
    THEN CHOOSE i \in 1..Len(AdvanceOrder) : AdvanceOrder[i] = at
    ELSE 0

\* C29: an advanceStage for a stage that is not the last goes through the first
\* transition, the narration request, the narration speech and the second
\* transition in this order and then starts loadStage: the narration is
\* requested when the first transition ends, the speech is awaited only after
\* the narration has returned, the second transition and the loadStage come
\* only after the completion signal of the narration speech has resolved
\* (req = 0: it was resolved at once, nothing was spoken).
C29_AdvanceOrder ==
    /\ [](\A f \in Flow :
             /\ calls[f].op = "generateNarration" => flows[f].pc = "A_narr"
             /\ flows[f].pc = "A_nspeech" => flows[f].req # 0
             /\ flows[f].pc = "A_trans2" =>
                    (flows[f].req = 0 \/ flows[f].req \in resolved))
    /\ [][\A f \in Flow :
             /\ (AdvancePos(flows[f].pc) > 0 /\ flows'[f].pc # flows[f].pc) =>
                    \/ AdvancePos(flows'[f].pc) > AdvancePos(flows[f].pc)
                    \/ /\ flows[f].pc = "A_trans2"
                       /\ flows'[f].pc \in LoadPcs \cup {"done"}
                       /\ flows'[f].pc \in LoadPcs => flows'[f].stage = flows[f].stage
             /\ (AdvancePos(flows'[f].pc) > 1 /\ flows'[f].pc # flows[f].pc) =>
                    AdvancePos(flows[f].pc) > 0
             /\ (calls'[f].op = "generateNarration" /\ calls[f] = Idle) =>
                    flows[f].pc = "A_trans1"
             /\ (flows[f].pc = "A_narr" /\ flows'[f].pc # "A_narr") =>
                    calls'[f] = Idle
             /\ (flows[f].pc = "A_nspeech" /\ flows'[f].pc # "A_nspeech") =>
                    /\ flows'[f].pc = "A_trans2"
                    /\ flows[f].req \notin resolved
                    /\ flows[f].req \in resolved']_vars

\* C29 witness: the narration of an advance to the second stage was spoken to
\* its end, and the second transition is shown.
C29_Witness ==
    \E f \in Flow :
        /\ flows[f].pc = "A_trans2" /\ flows[f].stage = 1 /\ state.currentStage = 1
        /\ flows[f].req # 0 /\ pc[flows[f].req] = "ended" /\ flows[f].req \in resolved

\* the places of endGame
EndPcs == {"E_trans", "E_story", "E_sky"}

C31_FailedEdgeInitLeavesCloudOnly ==
    [][\A k \in Slot :
          (/\ calls[k].pc = "capabilities"
           /\ \A j \in Slot \ {k} : calls[j] = Idle
           /\ calls'[k].pc # "create") => ~localAiSession']_vars

\* C32: the rank shown on the ending screen is the rank function of the
\* elapsed time and the hint count shown in the same summary.
C32_SummaryConsistent ==
    screen = "ending" => finalRank = calculateRank(finalTime, finalHints)

\* C33: the stage index stays between 0 and the number of stages, and a task
\* increments it by one at most, never once it equals the number of stages.
C33_StageIndexBounded ==
    /\ [](state.currentStage \in 0..NumStages)
    /\ [][/\ state'.currentStage \in {0, state.currentStage, state.currentStage + 1}
          /\ state.currentStage = NumStages =>
                 state'.currentStage \in {0, NumStages}]_vars

\* the places of a stage flow: advanceStage and loadStage
StagePcs == {"A_trans1", "A_narr", "A_nspeech", "A_trans2"} \cup LoadPcs

\* C34: once the stage index has passed the stage a suspended loadStage or
\* advanceStage works for, that flow takes no further step of its handler: it
\* never moves on to another place of loadStage or advanceStage.
C34_NoStaleStageFlow ==
    [][\A f \in Flow :
          (/\ flows[f].pc \in StagePcs
           /\ flows[f].stage < state.currentStage
           /\ flows'[f].pc \in StagePcs) => flows'[f].pc = flows[f].pc]_vars

\* C35: the completion signal of every speakAndWait request is eventually
\* resolved, when every synthesis request returns and every audio that keeps
\* playing ends.
C35_SignalEventuallyResolved ==
    \A r \in Req : (kind[r] = "priority") ~> (r \in resolved)

\* the difficulty counters are left as they are
CountersKept ==
    /\ consecutiveCorrect' = consecutiveCorrect
    /\ consecutiveWrong' = consecutiveWrong

\* the difficulty counters are updated once from a verdict
CountedOnce(correct) ==
    IF correct
    THEN consecutiveCorrect' = consecutiveCorrect + 1 /\ consecutiveWrong' = 0
    ELSE consecutiveWrong' = consecutiveWrong + 1 /\ consecutiveCorrect' = 0

\* C36: an evaluateAnswer call updates the difficulty counters once at most:
\* a task of the call that does not return leaves them as they are, the task
\* that returns an AI verdict (edge or cloud) updates them once from that
\* verdict, and the task that returns a fixed response (connection lost,
\* unstable) leaves them as they are.
C36_CountedOncePerCall ==
    [][/\ \A k \in Slot :
            (calls'[k].op = "evaluateAnswer" /\ calls'[k] # calls[k]) => CountersKept
       /\ ((ret' # ret \/ \E k \in Slot : calls[k].op = "evaluateAnswer" /\ calls'[k] = Idle)
              /\ ret'.op = "evaluateAnswer") =>
             IF ret'.text.src \in {"cloud", "edge"}
             THEN CountedOnce(ret'.text.correct)
             ELSE /\ ret'.text \in {Fixed("connLost"), Fixed("unstable")}
                  /\ CountersKept]_vars

\* C36 witness: the edge attempt of a call failed, the cloud returned a correct
\* verdict, and the counters show one verdict.
C36_Witness ==
    /\ ret.op = "evaluateAnswer" /\ ret.asked = 1 /\ ret.sent = 1
    /\ ret.text.src = "cloud" /\ ret.text.correct
    /\ consecutiveCorrect = 1 /\ consecutiveWrong = 0

=============================================================================
